---- MODULE Spec2Model ----
(***************************************************************************)
(* State-machine model of SquareCacheManager                               *)
(* (src/cache-system/square_cache_manager.py): the MongoDB-backed cache of *)
(* Square catalog items, its change detector and the sync orchestrator.    *)
(*                                                                         *)
(* Python values are modelled as tagged records [t |-> tag, v |-> value],  *)
(* so that isinstance tests, None and structural equality of dicts behave  *)
(* as in the source.  MongoDB collections are modelled by their documents  *)
(* (the driver-generated _id field is left out: no code path reads it).    *)
(* SHA-256 is modelled as collision free: the digest of a string is the    *)
(* string under a tag.                                                     *)
(***************************************************************************)
EXTENDS Integers, Sequences, FiniteSets, TLC

\* ------------------------------------------------------------------ bounds

\* Invocations of sync_from_square in one behaviour.
MaxRuns == 2

\* Records one fetch returns in total (over all its pages).
MaxItems == 2

\* Page requests the upstream cursor chain is long (the last page has no cursor).
MaxPages == 2

\* Entries of the Change Log a manager serving queries is constructed over,
\* and the clock ticks their timestamps are spread over.
MaxLog == 3

\* Threads that may call sync_from_square; Writers is the single writer of the
\* sequential specification.
Procs == {1, 2}

Writers == {1}

\* ----------------------------------------------------------- Python values

PyNone == [t |-> "none", v |-> 0]

PyStr(s) == [t |-> "str", v |-> s]

PyInt(n) == [t |-> "int", v |-> n]

PyBool(b) == [t |-> "bool", v |-> b]

PyDatetime(n) == [t |-> "datetime", v |-> n]

PyDict(f) == [t |-> "dict", v |-> f]

PyList(s) == [t |-> "list", v |-> s]

\* An exception raised by `call`; __context__ is the exception that was being
\* handled when it was raised, or None.
PyException(call, context) == [t |-> "exception", v |-> call, context |-> context]

EmptyDict == PyDict(<<>>)

\* isinstance(value, dict)
IsDict(value) == value.t = "dict"

\* key in d
HasKey(d, key) == key \in DOMAIN d.v

\* d.get(key, default)
DictGet(d, key, default) == IF HasKey(d, key) THEN d.v[key] ELSE default

\* d[key] = value
DictSet(d, key, value) == PyDict((key :> value) @@ d.v)

\* del d[key]
DictDel(d, key) == PyDict([k \in DOMAIN d.v \ {key} |-> d.v[k]])

\* ------------------------------------------------------- upstream catalog

\* The one variation of an item, with its SKU.
Variation(sku) ==
    PyDict([type |-> PyStr("ITEM_VARIATION"),
            item_variation_data |-> PyDict([sku |-> PyStr(sku)])])

\* A catalog object as Square's /catalog/list returns it.
CatalogObject(id, version, name) ==
    PyDict([type |-> PyStr("ITEM"),
            id |-> PyStr(id),
            version |-> PyInt(version),
            updated_at |-> PyStr(IF version = 1 THEN "2024-09-18" ELSE "2024-09-19"),
            item_data |->
                PyDict([name |-> PyStr(name),
                        variations |->
                            PyList(<< Variation(IF id = "I1" THEN "WID-001"
                                                ELSE "GAD-001") >>)])])

\* The objects the upstream may return.
Widget1 == CatalogObject("I1", 1, "Widget")

\* Widget1 with only the volatile fields changed
Widget2 == CatalogObject("I1", 2, "Widget")

\* Widget1 renamed
WidgetPro == CatalogObject("I1", 2, "Widget Pro")

\* a second item
Gadget == CatalogObject("I2", 1, "Gadget")

Upstream == { Widget1, Widget2, WidgetPro, Gadget }

\* The listings the upstream may serve, in page order.  The catalog changing
\* while it is being paged through can list one id twice, with its content
\* changed (<<Widget1, WidgetPro>>) or only its version (<<Widget2, Widget1>>).
Listings ==
    { <<Widget1, Gadget>>, <<WidgetPro, Gadget>>,
      <<Widget2, Widget1>>, <<Widget1, WidgetPro, Gadget>> }

IsPrefix(s, t) == Len(s) <= Len(t) /\ SubSeq(t, 1, Len(s)) = s

\* The pages that may follow the records `items` already received: the next
\* stretch, possibly empty, of a listing that starts with them (a listing may
\* end anywhere: the upstream decides where the cursor chain stops).
NextPages(items) ==
    { SubSeq(ln[1], Len(items) + 1, ln[2]) :
        ln \in { x \in Listings \X (0..MaxItems) :
                   /\ IsPrefix(items, x[1])
                   /\ Len(items) <= x[2]
                   /\ x[2] <= Len(x[1]) } }

\* ------------------------------------------------------------------- state

VARIABLES
    items_collection,     \* db['catalog_items']: the set of cached documents
    changes_collection,   \* db['change_snapshots']: documents in insertion order
    sync_log_collection,  \* db['sync_log']: documents in insertion order
    clock,                \* what datetime.now(timezone.utc) returns next
    runs,                 \* invocations of sync_from_square started so far
    pc,                   \* per thread: where it is in sync_from_square
    sync_start,           \* per thread: local sync_start
    square_items,         \* per thread: local square_items (dicts, mutated in place)
    cursor,               \* per thread: local cursor of _fetch_square_items (None, or the
                          \* cursor the last page returned)
    pages,                \* per thread: page requests made by this invocation
    idx,                  \* per thread: position of the for loop in square_items
    changes,              \* per thread: local changes (ChangeSnapshot objects)
    created_count,        \* per thread: local created_count
    updated_count,        \* per thread: local updated_count
    error,                \* per thread: the exception caught by the handler
    result,               \* per thread: what the last invocation returned or raised
    fetched,              \* history: the records of this invocation as fetched
    before,               \* history: the collections and the time when this invocation started
    previous,             \* history: the invocation that finished last before this one started
    last,                 \* history: the invocation that finished last
    call                  \* the read-only call that has just returned, with its
                          \* arguments and its value (NoCall once the system moved on)

vars == << items_collection, changes_collection, sync_log_collection, clock, runs,
           pc, sync_start, square_items, cursor, pages, idx, changes,
           created_count, updated_count, error, result,
           fetched, before, previous, last, call >>

collections == << items_collection, changes_collection, sync_log_collection >>

locals == << sync_start, square_items, cursor, pages, idx, changes,
             created_count, updated_count, error >>

NoRun == [items |-> <<>>, outcome |-> "none"]

NoCall == [op |-> "none"]

\* The state after construction, but for the collections: the database outlives
\* the manager, so a manager may be constructed over collections already filled.
Constructed ==
    /\ clock = 0
    /\ runs = 0
    /\ pc = [p \in Procs |-> "idle"]
    /\ sync_start = [p \in Procs |-> PyNone]
    /\ square_items = [p \in Procs |-> <<>>]
    /\ cursor = [p \in Procs |-> PyNone]
    /\ pages = [p \in Procs |-> 0]
    /\ idx = [p \in Procs |-> 0]
    /\ changes = [p \in Procs |-> <<>>]
    /\ created_count = [p \in Procs |-> 0]
    /\ updated_count = [p \in Procs |-> 0]
    /\ error = [p \in Procs |-> PyNone]
    /\ result = [p \in Procs |-> PyNone]
    /\ fetched = [p \in Procs |-> <<>>]
    /\ previous = [p \in Procs |-> NoRun]
    /\ last = NoRun
    /\ call = NoCall

Init ==
    /\ items_collection = {}
    /\ changes_collection = <<>>
    /\ sync_log_collection = <<>>
    /\ before = [p \in Procs |-> [items |-> {}, changes |-> <<>>, sync_log |-> <<>>,
                                  sync_start |-> PyNone]]
    /\ Constructed

\* ------------------------------------------------------- pure functions

\* json.dumps(data, sort_keys=True, separators=(',', ':')): with sorted keys the
\* text is determined by the value and determines it.
json_dumps(data) == [t |-> "json", v |-> data.v]

\* hashlib.sha256(s.encode()).hexdigest()
sha256_hexdigest(s) == [t |-> "sha256", v |-> s]

\* str.split('.') on the paths of compare_fields
split(path) ==
    CASE path = "item_data.name" -> <<"item_data", "name">>
      [] path = "item_data.description" -> <<"item_data", "description">>
      [] path = "item_data.image_ids" -> <<"item_data", "image_ids">>
      [] path = "item_data.variations" -> <<"item_data", "variations">>
      [] path = "item_data.categories" -> <<"item_data", "categories">>
      [] OTHER -> <<path>>

\* _calculate_hash removing version and updated_at inside item_data as well
calculate_hash_deep(data) ==
    LET clean1 == IF HasKey(data, "updated_at") THEN DictDel(data, "updated_at") ELSE data
        clean2 == IF HasKey(clean1, "version") THEN DictDel(clean1, "version") ELSE clean1
        clean_data == IF HasKey(clean2, "item_data")
                      THEN DictSet(clean2, "item_data",
                                   PyDict([k \in DOMAIN clean2.v.item_data.v
                                                   \ {"version", "updated_at"}
                                             |-> clean2.v.item_data.v[k]]))
                      ELSE clean2
    IN  sha256_hexdigest(json_dumps(clean_data))

calculate_hash(data) ==
    LET clean1 == IF HasKey(data, "updated_at") THEN DictDel(data, "updated_at") ELSE data
        clean_data == IF HasKey(clean1, "version") THEN DictDel(clean1, "version") ELSE clean1
    IN  sha256_hexdigest(json_dumps(clean_data))

\* The loop of _get_nested_value returning the value reached so far, not None,
\* when a key is missing
RECURSIVE walk_keeping(_, _)
walk_keeping(value, keys) ==
    IF keys = <<>> THEN value
    ELSE IF IsDict(value) /\ HasKey(value, Head(keys))
         THEN walk_keeping(value.v[Head(keys)], Tail(keys))
         ELSE value

RECURSIVE walk(_, _)
walk(value, keys) ==
    IF keys = <<>> THEN value
    ELSE IF IsDict(value) /\ HasKey(value, Head(keys))
         THEN walk(value.v[Head(keys)], Tail(keys))
         ELSE PyNone

get_nested_value(data, path) == walk(data, split(path))

compare_fields ==
    << "item_data.name", "item_data.description", "item_data.image_ids",
       "item_data.variations", "item_data.categories", "version", "updated_at" >>

\* _find_differences comparing the item_data paths only
find_differences_item_data(before_doc, after_doc) ==
    LET differing == { i \in 1..5 :
                         get_nested_value(before_doc, compare_fields[i])
                           # get_nested_value(after_doc, compare_fields[i]) }
    IN  PyDict([ f \in { compare_fields[i] : i \in differing } |->
                   PyDict([before |-> get_nested_value(before_doc, f),
                           after |-> get_nested_value(after_doc, f)]) ])

\* _find_differences storing the two values the wrong way round
find_differences_swapped(before_doc, after_doc) ==
    LET differing == { i \in 1..Len(compare_fields) :
                         get_nested_value(before_doc, compare_fields[i])
                           # get_nested_value(after_doc, compare_fields[i]) }
    IN  PyDict([ f \in { compare_fields[i] : i \in differing } |->
                   PyDict([before |-> get_nested_value(after_doc, f),
                           after |-> get_nested_value(before_doc, f)]) ])

find_differences(before_doc, after_doc) ==
    LET differing == { i \in 1..Len(compare_fields) :
                         get_nested_value(before_doc, compare_fields[i])
                           # get_nested_value(after_doc, compare_fields[i]) }
    IN  PyDict([ f \in { compare_fields[i] : i \in differing } |->
                   PyDict([before |-> get_nested_value(before_doc, f),
                           after |-> get_nested_value(after_doc, f)]) ])

\* collection.find_one({"id": item_id})
find_one(collection, item_id) ==
    IF \E d \in collection : DictGet(d, "id", PyNone) = item_id
    THEN CHOOSE d \in collection : DictGet(d, "id", PyNone) = item_id
    ELSE PyNone

\* replace_one without upsert=True: a document is replaced, never inserted
replace_one_no_upsert(collection, item_id, doc) ==
    IF find_one(collection, item_id) = PyNone
    THEN collection
    ELSE (collection \ {find_one(collection, item_id)}) \cup {doc}

\* replace_one on a collection purged of every other document first
replace_one_purging(collection, item_id, doc) == {doc}

\* replace_one merging the new document over the stored one (an update with $set)
replace_one_merging(collection, item_id, doc) ==
    IF find_one(collection, item_id) = PyNone
    THEN collection \cup {doc}
    ELSE (collection \ {find_one(collection, item_id)})
         \cup {PyDict(doc.v @@ find_one(collection, item_id).v)}

\* collection.replace_one({"id": item_id}, doc, upsert=True)
replace_one(collection, item_id, doc) ==
    IF find_one(collection, item_id) = PyNone
    THEN collection \cup {doc}
    ELSE (collection \ {find_one(collection, item_id)}) \cup {doc}

\* A reference to the dict object square_items[i]: a snapshot's after_data is
\* the fetched dict itself, not a copy of it.
Ref(i) == [t |-> "ref", v |-> i]

ChangeSnapshot(item_id, item_name, change_type, timestamp, before_data, after_data, differences, square_version_before, square_version_after) ==
    [ t |-> "ChangeSnapshot",
      v |-> [ item_id |-> item_id, item_name |-> item_name, change_type |-> change_type,
              timestamp |-> timestamp, before_data |-> before_data,
              after_data |-> after_data, differences |-> differences,
              square_version_before |-> square_version_before,
              square_version_after |-> square_version_after ] ]

\* square_item.get('item_data', {}).get('name', 'Unknown'): the second get
\* raises AttributeError when item_data is there and is not a dict.
item_name_of(square_item) ==
    IF IsDict(DictGet(square_item, "item_data", EmptyDict))
    THEN DictGet(DictGet(square_item, "item_data", EmptyDict), "name", PyStr("Unknown"))
    ELSE PyException("AttributeError", PyNone)

\* An exception raised while the arguments of a call are evaluated leaves the
\* function in place of the value of the call.
raised_or(argument, value) == IF argument.t = "exception" THEN argument ELSE value

\* _detect_changes leaving square_version_after out of a create snapshot
detect_changes_no_version(square_item, self, cached_item, now) ==
    IF cached_item = PyNone
    THEN ChangeSnapshot(square_item.v.id, item_name_of(square_item), PyStr("create"),
                        PyDatetime(now), PyNone, Ref(self), PyNone, PyNone, PyNone)
    ELSE IF calculate_hash(square_item) # DictGet(cached_item, "content_hash", PyStr(""))
    THEN ChangeSnapshot(square_item.v.id, item_name_of(square_item), PyStr("update"),
                        PyDatetime(now), cached_item, Ref(self),
                        find_differences(cached_item, square_item),
                        DictGet(cached_item, "version", PyNone),
                        DictGet(square_item, "version", PyNone))
    ELSE PyNone

\* _detect_changes reading the cached hash under a key the cache does not use
detect_changes_wrong_key(square_item, self, cached_item, now) ==
    IF cached_item = PyNone
    THEN ChangeSnapshot(square_item.v.id, item_name_of(square_item), PyStr("create"),
                        PyDatetime(now), PyNone, Ref(self), PyNone, PyNone,
                        DictGet(square_item, "version", PyNone))
    ELSE IF calculate_hash(square_item) # DictGet(cached_item, "hash", PyStr(""))
    THEN ChangeSnapshot(square_item.v.id, item_name_of(square_item), PyStr("update"),
                        PyDatetime(now), cached_item, Ref(self),
                        find_differences(cached_item, square_item),
                        DictGet(cached_item, "version", PyNone),
                        DictGet(square_item, "version", PyNone))
    ELSE PyNone

\* _detect_changes deciding by the compared fields instead of the hash
detect_changes_by_differences(square_item, self, cached_item, now) ==
    IF cached_item = PyNone
    THEN raised_or(item_name_of(square_item),
           ChangeSnapshot(square_item.v.id, item_name_of(square_item), PyStr("create"),
                          PyDatetime(now), PyNone, Ref(self), PyNone, PyNone,
                          DictGet(square_item, "version", PyNone)))
    ELSE IF find_differences(cached_item, square_item) # EmptyDict
    THEN raised_or(item_name_of(square_item),
           ChangeSnapshot(square_item.v.id, item_name_of(square_item), PyStr("update"),
                          PyDatetime(now), cached_item, Ref(self),
                          find_differences(cached_item, square_item),
                          DictGet(cached_item, "version", PyNone),
                          DictGet(square_item, "version", PyNone)))
    ELSE PyNone

\* _detect_changes, given what find_one returned: the snapshot, or None, or
\* the exception raised.  `self` is the position of square_item in
\* square_items, `now` the clock.
detect_changes(square_item, self, cached_item, now) ==
    IF cached_item = PyNone
    THEN raised_or(item_name_of(square_item),
           ChangeSnapshot(square_item.v.id, item_name_of(square_item), PyStr("create"),
                          PyDatetime(now), PyNone, Ref(self), PyNone, PyNone,
                          DictGet(square_item, "version", PyNone)))
    ELSE IF calculate_hash(square_item) # DictGet(cached_item, "content_hash", PyStr(""))
    THEN raised_or(item_name_of(square_item),
           ChangeSnapshot(square_item.v.id, item_name_of(square_item), PyStr("update"),
                          PyDatetime(now), cached_item, Ref(self),
                          find_differences(cached_item, square_item),
                          DictGet(cached_item, "version", PyNone),
                          DictGet(square_item, "version", PyNone)))
    ELSE PyNone

\* dataclasses.asdict(change): a deep copy, taken when the batch is written.
asdict(change, items) ==
    PyDict([change.v EXCEPT !.after_data = items[change.v.after_data.v]])

\* ------------------------------------------------- sync_from_square, by step

Running(p) == pc[p] \notin {"idle", "returned", "raised"}

\* The call of p has returned or raised.
Terminal(p) == pc[p] \in {"returned", "raised"}

\* The locals of a call are gone when it returns or raises.
Discard(p) ==
    /\ sync_start' = [sync_start EXCEPT ![p] = PyNone]
    /\ square_items' = [square_items EXCEPT ![p] = <<>>]
    /\ idx' = [idx EXCEPT ![p] = 0]
    /\ changes' = [changes EXCEPT ![p] = <<>>]
    /\ created_count' = [created_count EXCEPT ![p] = 0]
    /\ updated_count' = [updated_count EXCEPT ![p] = 0]
    /\ error' = [error EXCEPT ![p] = PyNone]
    /\ fetched' = [fetched EXCEPT ![p] = <<>>]
    /\ UNCHANGED << cursor, pages >>

\* The call: lines 197-203, and the first lines of _fetch_square_items.
StartSync(p) ==
    /\ ~Running(p)
    /\ runs < MaxRuns
    /\ runs' = runs + 1
    /\ sync_start' = [sync_start EXCEPT ![p] = PyDatetime(clock)]
    /\ clock' = clock + 1
    /\ square_items' = [square_items EXCEPT ![p] = <<>>]
    /\ cursor' = [cursor EXCEPT ![p] = PyNone]
    /\ pages' = [pages EXCEPT ![p] = 0]
    /\ idx' = [idx EXCEPT ![p] = 0]
    /\ changes' = [changes EXCEPT ![p] = <<>>]
    /\ created_count' = [created_count EXCEPT ![p] = 0]
    /\ updated_count' = [updated_count EXCEPT ![p] = 0]
    /\ error' = [error EXCEPT ![p] = PyNone]
    /\ result' = [result EXCEPT ![p] = PyNone]
    /\ fetched' = [fetched EXCEPT ![p] = <<>>]
    /\ before' = [before EXCEPT ![p] = [items |-> items_collection,
                                        changes |-> changes_collection,
                                        sync_log |-> sync_log_collection,
                                        sync_start |-> PyDatetime(clock)]]
    /\ previous' = [previous EXCEPT ![p] = last]
    /\ pc' = [pc EXCEPT ![p] = "fetch"]
    /\ UNCHANGED << collections, last >>

\* Where the run goes once the fetch has returned `items`: the for loop, or past it.
after_fetch(items) == IF items = <<>> THEN "save" ELSE "detect"

\* A cursor of the upstream: an opaque string that stands for the place in the
\* listing a page ended at, that is for the records served before it.
Cursor(served) == [t |-> "cursor", v |-> served]

\* The records the listing served before a cursor; none when the request
\* carries no cursor (lines 100-102: the listing starts over).
served_before(cursor_sent) == IF cursor_sent = PyNone THEN <<>> ELSE cursor_sent.v

\* response.json() of lines 104-107 for a request carrying cursor_sent, the
\* requests_made-th of the chain: the next stretch of a listing, and a cursor
\* unless the chain ends here.
catalog_list(cursor_sent, requests_made) ==
    { [objects |-> objects,
       cursor |-> IF more THEN Cursor(served_before(cursor_sent) \o objects) ELSE PyNone] :
        objects \in NextPages(served_before(cursor_sent)),
        more \in { b \in BOOLEAN : b => requests_made + 1 < MaxPages } }

\* _fetch_square_items requesting every page without the cursor it holds
FetchPageWithoutCursor(p) ==
    /\ pc[p] = "fetch"
    /\ \E data \in catalog_list(PyNone, pages[p]) :
        /\ square_items' = [square_items EXCEPT ![p] = @ \o data.objects]
        /\ fetched' = [fetched EXCEPT ![p] = @ \o data.objects]
        /\ cursor' = [cursor EXCEPT ![p] = data.cursor]
        /\ pages' = [pages EXCEPT ![p] = IF data.cursor # PyNone THEN @ + 1 ELSE 0]
        /\ pc' = [pc EXCEPT ![p] = IF data.cursor # PyNone THEN "fetch"
                                   ELSE after_fetch(square_items[p] \o data.objects)]
        /\ idx' = [idx EXCEPT ![p] = IF data.cursor # PyNone THEN 0 ELSE 1]
    /\ UNCHANGED << collections, clock, runs, sync_start, changes, created_count,
                    updated_count, error, result, before, previous, last >>

\* One iteration of the while loop of _fetch_square_items: the request carries
\* the cursor held, the objects of the page extend items, and the cursor of the
\* page is held next.  When no cursor comes back the function returns (its own
\* locals are gone) and sync_from_square sets up its loop (lines 208-212).
FetchPage(p) ==
    /\ pc[p] = "fetch"
    /\ \E data \in catalog_list(cursor[p], pages[p]) :
        /\ square_items' = [square_items EXCEPT ![p] = @ \o data.objects]
        /\ fetched' = [fetched EXCEPT ![p] = @ \o data.objects]
        /\ cursor' = [cursor EXCEPT ![p] = data.cursor]
        /\ pages' = [pages EXCEPT ![p] = IF data.cursor # PyNone THEN @ + 1 ELSE 0]
        /\ pc' = [pc EXCEPT ![p] = IF data.cursor # PyNone THEN "fetch"
                                   ELSE after_fetch(square_items[p] \o data.objects)]
        /\ idx' = [idx EXCEPT ![p] = IF data.cursor # PyNone THEN 0 ELSE 1]
    /\ UNCHANGED << collections, clock, runs, sync_start, changes, created_count,
                    updated_count, error, result, before, previous, last >>

\* requests.get or raise_for_status raises (lines 104-105): the records of the
\* earlier pages are lost with the locals of _fetch_square_items.
FetchRaises(p) ==
    /\ pc[p] = "fetch"
    /\ square_items' = [square_items EXCEPT ![p] = <<>>]
    /\ fetched' = [fetched EXCEPT ![p] = <<>>]
    /\ cursor' = [cursor EXCEPT ![p] = PyNone]
    /\ pages' = [pages EXCEPT ![p] = 0]
    /\ error' = [error EXCEPT ![p] = PyException("requests.get", PyNone)]
    /\ pc' = [pc EXCEPT ![p] = "except"]
    /\ UNCHANGED << collections, clock, runs, sync_start, idx,
                    changes, created_count, updated_count, result, before,
                    previous, last >>

\* The record the for loop is at.
item_of(p) == square_items[p][idx[p]]

\* The loop writing each snapshot to the Change Log as soon as it is detected
DetectInserting(p) ==
    /\ pc[p] = "detect"
    /\ LET change_snapshot ==
             detect_changes(item_of(p), idx[p],
                            find_one(items_collection, item_of(p).v.id), clock)
       IN  IF change_snapshot # PyNone
           THEN /\ changes' = [changes EXCEPT ![p] = Append(@, change_snapshot)]
                /\ changes_collection' =
                     Append(changes_collection, asdict(change_snapshot, square_items[p]))
                /\ clock' = clock + 1
                /\ created_count' =
                     [created_count EXCEPT ![p] =
                        IF change_snapshot.v.change_type = PyStr("create") THEN @ + 1 ELSE @]
                /\ updated_count' =
                     [updated_count EXCEPT ![p] =
                        IF change_snapshot.v.change_type = PyStr("create") THEN @
                        ELSE IF change_snapshot.v.change_type = PyStr("update")
                             THEN @ + 1 ELSE @]
           ELSE UNCHANGED << changes, changes_collection, clock, created_count,
                             updated_count >>
    /\ pc' = [pc EXCEPT ![p] = "upsert"]
    /\ UNCHANGED << items_collection, sync_log_collection, runs, sync_start, square_items,
                    cursor, pages, idx, error, result, fetched, before, previous, last >>

\* Lines 214-222: _detect_changes on the current record and the counters (an
\* exception raised in _detect_changes goes to the handler).
Detect(p) ==
    /\ pc[p] = "detect"
    /\ LET change_snapshot ==
             detect_changes(item_of(p), idx[p],
                            find_one(items_collection, item_of(p).v.id), clock)
       IN  IF change_snapshot.t = "exception"
           THEN /\ error' = [error EXCEPT ![p] = change_snapshot]
                /\ pc' = [pc EXCEPT ![p] = "except"]
                /\ UNCHANGED << changes, clock, created_count, updated_count >>
           ELSE /\ IF change_snapshot # PyNone
                   THEN /\ changes' = [changes EXCEPT ![p] = Append(@, change_snapshot)]
                        /\ clock' = clock + 1
                        /\ created_count' =
                             [created_count EXCEPT ![p] =
                                IF change_snapshot.v.change_type = PyStr("create")
                                THEN @ + 1 ELSE @]
                        /\ updated_count' =
                             [updated_count EXCEPT ![p] =
                                IF change_snapshot.v.change_type = PyStr("create") THEN @
                                ELSE IF change_snapshot.v.change_type = PyStr("update")
                                     THEN @ + 1 ELSE @]
                   ELSE UNCHANGED << changes, clock, created_count, updated_count >>
                /\ pc' = [pc EXCEPT ![p] = "upsert"]
                /\ UNCHANGED error
    /\ UNCHANGED << collections, runs, sync_start, square_items, cursor, pages, idx,
                    result, fetched, before, previous, last >>

\* find_one raises (line 121).
DetectRaises(p) ==
    /\ pc[p] = "detect"
    /\ error' = [error EXCEPT ![p] = PyException("find_one", PyNone)]
    /\ pc' = [pc EXCEPT ![p] = "except"]
    /\ UNCHANGED << collections, clock, runs, sync_start, square_items, cursor, pages,
                    idx, changes, created_count, updated_count, result, fetched, before,
                    previous, last >>

\* Lines 225 and 226 swapped: the hash is taken with cached_at in the record
stamped_then_hashed(item, now) ==
    DictSet(DictSet(item, "cached_at", PyDatetime(now)),
            "content_hash", calculate_hash(DictSet(item, "cached_at", PyDatetime(now))))

\* Lines 225-226: the fetched dict gets the two cache-only fields, in place.
stamped(item, now) ==
    DictSet(DictSet(item, "content_hash", calculate_hash(item)),
            "cached_at", PyDatetime(now))

\* Where the for loop goes after the record at position i of items.
after_item(i, items) == IF i < Len(items) THEN "detect" ELSE "save"

\* The loop keeping its upserts back (to apply them once the run is through)
UpsertHeldBack(p) ==
    /\ pc[p] = "upsert"
    /\ square_items' = [square_items EXCEPT ![p][idx[p]] = stamped(item_of(p), clock)]
    /\ clock' = clock + 1
    /\ idx' = [idx EXCEPT ![p] = @ + 1]
    /\ pc' = [pc EXCEPT ![p] = after_item(idx[p], square_items[p])]
    /\ UNCHANGED << collections, runs, sync_start, cursor,
                    pages, changes, created_count, updated_count, error, result,
                    fetched, before, previous, last >>

\* The loop writing a record to the cache only when detection returned a snapshot
UpsertOnlyChanged(p) ==
    /\ pc[p] = "upsert"
    /\ square_items' = [square_items EXCEPT ![p][idx[p]] = stamped(item_of(p), clock)]
    /\ clock' = clock + 1
    /\ items_collection' =
         IF changes[p] # <<>> /\ changes[p][Len(changes[p])].v.after_data = Ref(idx[p])
         THEN replace_one(items_collection, item_of(p).v.id, stamped(item_of(p), clock))
         ELSE items_collection
    /\ idx' = [idx EXCEPT ![p] = @ + 1]
    /\ pc' = [pc EXCEPT ![p] = after_item(idx[p], square_items[p])]
    /\ UNCHANGED << changes_collection, sync_log_collection, runs, sync_start, cursor,
                    pages, changes, created_count, updated_count, error, result,
                    fetched, before, previous, last >>

\* Lines 225-232: stamp the record and replace_one(..., upsert=True).
Upsert(p) ==
    /\ pc[p] = "upsert"
    /\ square_items' = [square_items EXCEPT ![p][idx[p]] = stamped(item_of(p), clock)]
    /\ clock' = clock + 1
    /\ items_collection' =
         replace_one(items_collection, item_of(p).v.id, stamped(item_of(p), clock))
    /\ idx' = [idx EXCEPT ![p] = @ + 1]
    /\ pc' = [pc EXCEPT ![p] = after_item(idx[p], square_items[p])]
    /\ UNCHANGED << changes_collection, sync_log_collection, runs, sync_start, cursor,
                    pages, changes, created_count, updated_count, error, result,
                    fetched, before, previous, last >>

\* replace_one raises (line 228), after the record was stamped.
UpsertRaises(p) ==
    /\ pc[p] = "upsert"
    /\ square_items' = [square_items EXCEPT ![p][idx[p]] = stamped(item_of(p), clock)]
    /\ clock' = clock + 1
    /\ error' = [error EXCEPT ![p] = PyException("replace_one", PyNone)]
    /\ pc' = [pc EXCEPT ![p] = "except"]
    /\ UNCHANGED << collections, runs, sync_start, cursor, pages, idx, changes,
                    created_count, updated_count, result, fetched, before, previous,
                    last >>

\* change_docs of line 236
change_docs(p) == [i \in 1..Len(changes[p]) |-> asdict(changes[p][i], square_items[p])]

\* The batch write replacing the Change Log by the run's snapshots
SaveChangesOverwriting(p) ==
    /\ pc[p] = "save"
    /\ changes_collection' =
         IF changes[p] # <<>> THEN change_docs(p) ELSE changes_collection
    /\ pc' = [pc EXCEPT ![p] = "log"]
    /\ UNCHANGED << items_collection, sync_log_collection, clock, runs, locals, result,
                    fetched, before, previous, last >>

\* Lines 235-237: the batch write of the run's snapshots.
SaveChanges(p) ==
    /\ pc[p] = "save"
    /\ changes_collection' =
         IF changes[p] # <<>> THEN changes_collection \o change_docs(p)
         ELSE changes_collection
    /\ pc' = [pc EXCEPT ![p] = "log"]
    /\ UNCHANGED << items_collection, sync_log_collection, clock, runs, locals, result,
                    fetched, before, previous, last >>

\* insert_many raises (line 237): an ordered bulk write keeps the documents
\* written before the one that failed.
SaveChangesRaises(p) ==
    /\ pc[p] = "save"
    /\ changes[p] # <<>>
    /\ \E k \in 0..(Len(changes[p]) - 1) :
         changes_collection' = changes_collection \o SubSeq(change_docs(p), 1, k)
    /\ error' = [error EXCEPT ![p] = PyException("insert_many", PyNone)]
    /\ pc' = [pc EXCEPT ![p] = "except"]
    /\ UNCHANGED << items_collection, sync_log_collection, clock, runs, sync_start,
                    square_items, cursor, pages, idx, changes, created_count,
                    updated_count, result, fetched, before, previous, last >>

\* sync_result counting the records fetched as the changes detected
sync_result_total(p, now) ==
    PyDict([ timestamp |-> sync_start[p],
             total_items |-> PyInt(Len(square_items[p])),
             created_count |-> PyInt(created_count[p]),
             updated_count |-> PyInt(updated_count[p]),
             changes_detected |-> PyInt(Len(square_items[p])),
             duration_seconds |-> PyInt(now - sync_start[p].v) ])

\* sync_result of lines 240-247
sync_result(p, now) ==
    PyDict([ timestamp |-> sync_start[p],
             total_items |-> PyInt(Len(square_items[p])),
             created_count |-> PyInt(created_count[p]),
             updated_count |-> PyInt(updated_count[p]),
             changes_detected |-> PyInt(Len(changes[p])),
             duration_seconds |-> PyInt(now - sync_start[p].v) ])

\* Lines 240-253: log the run and return sync_result.
LogSync(p) ==
    /\ pc[p] = "log"
    /\ clock' = clock + 1
    /\ sync_log_collection' = Append(sync_log_collection, sync_result(p, clock))
    /\ result' = [result EXCEPT ![p] = sync_result(p, clock)]
    /\ last' = [items |-> fetched[p], outcome |-> "returned"]
    /\ pc' = [pc EXCEPT ![p] = "returned"]
    /\ Discard(p)
    /\ UNCHANGED << items_collection, changes_collection, runs, before, previous >>

\* insert_one raises (line 249).
LogSyncRaises(p) ==
    /\ pc[p] = "log"
    /\ clock' = clock + 1
    /\ error' = [error EXCEPT ![p] = PyException("insert_one(sync_result)", PyNone)]
    /\ pc' = [pc EXCEPT ![p] = "except"]
    /\ UNCHANGED << collections, runs, sync_start, square_items, cursor, pages, idx,
                    changes, created_count, updated_count, result, fetched, before,
                    previous, last >>

\* error_result stamped with the time of the failure instead of sync_start
error_result_now(p) ==
    PyDict([ timestamp |-> PyDatetime(clock),
             error |-> PyStr(error[p].v),
             status |-> PyStr("failed") ])

\* error_result of lines 256-260
error_result(p) ==
    PyDict([ timestamp |-> sync_start[p],
             error |-> PyStr(error[p].v),
             status |-> PyStr("failed") ])

\* The handler re-raising without recording the run
ExceptNoLog(p) ==
    /\ pc[p] = "except"
    /\ result' = [result EXCEPT ![p] = error[p]]
    /\ last' = [items |-> <<>>, outcome |-> "raised"]
    /\ pc' = [pc EXCEPT ![p] = "raised"]
    /\ Discard(p)
    /\ UNCHANGED << collections, clock, runs, before, previous >>

\* The handler restoring the cache of before the run
ExceptRollback(p) ==
    /\ pc[p] = "except"
    /\ items_collection' = before[p].items
    /\ sync_log_collection' = Append(sync_log_collection, error_result(p))
    /\ result' = [result EXCEPT ![p] = error[p]]
    /\ last' = [items |-> <<>>, outcome |-> "raised"]
    /\ pc' = [pc EXCEPT ![p] = "raised"]
    /\ Discard(p)
    /\ UNCHANGED << changes_collection, clock, runs, before, previous >>

\* Lines 255-262: record the failed run, re-raise.
Except(p) ==
    /\ pc[p] = "except"
    /\ sync_log_collection' = Append(sync_log_collection, error_result(p))
    /\ result' = [result EXCEPT ![p] = error[p]]
    /\ last' = [items |-> <<>>, outcome |-> "raised"]
    /\ pc' = [pc EXCEPT ![p] = "raised"]
    /\ Discard(p)
    /\ UNCHANGED << items_collection, changes_collection, clock, runs, before,
                    previous >>

\* The handler's insert_one raising although the entry was written
ExceptRaisesAfterWrite(p) ==
    /\ pc[p] = "except"
    /\ sync_log_collection' = Append(sync_log_collection, error_result(p))
    /\ result' = [result EXCEPT ![p] = PyException("insert_one(error_result)", error[p])]
    /\ last' = [items |-> <<>>, outcome |-> "raised"]
    /\ pc' = [pc EXCEPT ![p] = "raised"]
    /\ Discard(p)
    /\ UNCHANGED << items_collection, changes_collection, clock, runs, before,
                    previous >>

\* insert_one raises inside the handler (line 261): its exception leaves the
\* function instead, and nothing was written.
ExceptRaises(p) ==
    /\ pc[p] = "except"
    /\ result' = [result EXCEPT ![p] = PyException("insert_one(error_result)", error[p])]
    /\ last' = [items |-> <<>>, outcome |-> "raised"]
    /\ pc' = [pc EXCEPT ![p] = "raised"]
    /\ Discard(p)
    /\ UNCHANGED << collections, clock, runs, before, previous >>

sync_from_square(p) ==
    \/ StartSync(p)
    \/ FetchPage(p)
    \/ FetchRaises(p)
    \/ Detect(p)
    \/ DetectRaises(p)
    \/ Upsert(p)
    \/ UpsertRaises(p)
    \/ SaveChanges(p)
    \/ SaveChangesRaises(p)
    \/ LogSync(p)
    \/ LogSyncRaises(p)
    \/ Except(p)
    \/ ExceptRaises(p)

\* One caller at a time (the single-writer assumption of the design).
Next == \E p \in Writers : sync_from_square(p) /\ call' = NoCall

Spec == Init /\ [][Next]_vars

\* The same, with every page request returning or raising in the end (the
\* calls block; the transport ends a stalled one with an error).
SpecFetch ==
    /\ Init /\ [][Next]_vars
    /\ \A p \in Writers : WF_vars((FetchPage(p) \/ FetchRaises(p)) /\ call' = NoCall)

\* -------------------------------------- a manager over a cache already filled

\* Widget1 as it was upstream when it still had a description and was
\* present at all locations.
WidgetDescribed ==
    PyDict(("present_at_all_locations" :> PyBool(TRUE))
           @@ [Widget1.v EXCEPT !.item_data =
                 DictSet(Widget1.v.item_data, "description", PyStr("First model"))])

\* The caches a manager may be constructed over: none yet, or the one an
\* earlier process left when it cached WidgetDescribed and both its log writes
\* failed.
EarlierCaches == { {}, {stamped(WidgetDescribed, -1)} }

InitRestart ==
    /\ items_collection \in EarlierCaches
    /\ changes_collection = <<>>
    /\ sync_log_collection = <<>>
    /\ before = [p \in Procs |-> [items |-> items_collection, changes |-> <<>>,
                                  sync_log |-> <<>>, sync_start |-> PyNone]]
    /\ Constructed

SpecRestart == InitRestart /\ [][Next]_vars

\* ------------------------------------------- the pure helpers, called alone

\* What is left alone by a call that only computes or reads.
manager == << collections, clock, runs, pc, locals, result, fetched, before,
              previous, last >>

\* The caller of a read-only call is done with its value; calls are made one
\* after the other.
Return ==
    /\ call # NoCall
    /\ call' = NoCall
    /\ UNCHANGED manager

\* A key with its value, or no key when the value is None.
Optional(key, value) == IF value = PyNone THEN <<>> ELSE (key :> value)

\* The payloads the helpers are called on: catalog objects with or without a
\* version, a name, and a version and updated_at nested in item_data.
Payloads ==
    { PyDict(Optional("version", version) @@ Optional("updated_at", updated_at)
             @@ [ type |-> PyStr("ITEM"),
                  id |-> id,
                  item_data |-> PyDict(Optional("name", name)
                                       @@ Optional("version", nested)
                                       @@ Optional("updated_at", nested)) ]) :
        id \in {PyStr("I1"), PyStr("I2")},
        version \in {PyNone, PyInt(1), PyInt(2)},
        updated_at \in {PyStr("2024-09-18"), PyStr("2024-09-19")},
        name \in {PyNone, PyStr("Widget"), PyStr("Widget Pro")},
        nested \in {PyNone, PyInt(1)} }

\* _calculate_hash(a) and _calculate_hash(b)
CallCalculateHash ==
    \E a, b \in Payloads :
        /\ call = NoCall
        /\ call' = [ op |-> "_calculate_hash", args |-> << a, b >>,
                     value |-> << calculate_hash(a), calculate_hash(b) >> ]
        /\ UNCHANGED manager

\* _find_differences(before, after) on a cached record and an incoming one, as
\* _detect_changes calls it.
CallFindDifferences ==
    \E a, b \in Payloads :
        /\ call = NoCall
        /\ call' = [ op |-> "_find_differences", args |-> << stamped(a, 0), b >>,
                     value |-> find_differences(stamped(a, 0), b) ]
        /\ UNCHANGED manager

NextPure == CallCalculateHash \/ CallFindDifferences \/ Return

SpecPure == Init /\ [][NextPure]_vars

\* ------------------------------------------- the change detector, called alone

\* The item_data an upstream record may come with: none, a value that is not a
\* mapping, or a mapping with or without a name, a list of variations and an
\* abbreviation (a field no comparison looks at).
ItemData ==
    { PyNone, PyStr("Widget") }
    \cup { PyDict(Optional("name", name) @@ Optional("variations", variations)
                  @@ Optional("abbreviation", abbreviation)) :
             name \in {PyNone, PyStr("Widget"), PyStr("Widget Pro")},
             variations \in {PyNone, PyList(<< Variation("WID-001") >>),
                             PyList(<< Variation("WID-002") >>)},
             abbreviation \in {PyNone, PyStr("W")} }

\* The records of item I1 the detector is called on, well formed or not.
Records ==
    { PyDict(Optional("version", version) @@ Optional("item_data", item_data)
             @@ [ type |-> PyStr("ITEM"), id |-> PyStr("I1"), updated_at |-> updated_at ]) :
        version \in {PyNone, PyInt(1), PyInt(2)},
        updated_at \in {PyStr("2024-09-18"), PyStr("2024-09-19")},
        item_data \in ItemData }

\* The caches the detector may meet: empty, a record as a sync cached it, or a
\* record another tool wrote without a content_hash.
DetectorCaches ==
    { {} } \cup { {stamped(record, 0)} : record \in Records }
    \cup { {DictSet(Widget1, "cached_at", PyDatetime(0))} }

InitDetector ==
    /\ items_collection \in DetectorCaches
    /\ changes_collection = <<>>
    /\ sync_log_collection = <<>>
    /\ before = [p \in Procs |-> [items |-> items_collection, changes |-> <<>>,
                                  sync_log |-> <<>>, sync_start |-> PyNone]]
    /\ Constructed

\* _detect_changes(square_item), with the record find_one returned to it.
CallDetectChanges ==
    \E square_item \in Records :
        /\ call = NoCall
        /\ call' = [ op |-> "_detect_changes",
                     args |-> << square_item, find_one(items_collection, square_item.v.id) >>,
                     value |-> detect_changes(square_item, 1,
                                              find_one(items_collection, square_item.v.id),
                                              clock) ]
        /\ UNCHANGED manager

\* _get_nested_value(data, path) on a cached record.
CallGetNestedValue ==
    \E data \in items_collection, i \in DOMAIN compare_fields :
        /\ call = NoCall
        /\ call' = [ op |-> "_get_nested_value", args |-> << data, compare_fields[i] >>,
                     value |-> get_nested_value(data, compare_fields[i]) ]
        /\ UNCHANGED manager

NextDetector == CallDetectChanges \/ CallGetNestedValue \/ Return

SpecDetector == InitDetector /\ [][NextDetector]_vars

\* ------------------------------------------------------------ the queries

\* The orders a cursor may deliver n documents in.
Orderings(n) == { s \in [1..n -> 1..n] : \A i, j \in 1..n : s[i] = s[j] => i = j }

\* cursor.sort("timestamp", -1): the orders of docs by timestamp descending
\* (the order among equal timestamps is the store's choice).
sort_timestamp_descending(docs) ==
    { [i \in 1..Len(docs) |-> docs[s[i]]] :
        s \in { o \in Orderings(Len(docs)) :
                  \A i, j \in 1..Len(docs) :
                      i < j => docs[o[i]].v.timestamp.v >= docs[o[j]].v.timestamp.v } }

\* ChangeSnapshot(**doc), the timestamp made timezone-aware (the same instant).
ChangeSnapshot_of(doc) == [t |-> "ChangeSnapshot", v |-> doc.v]

\* get_changed_items without the filter on since
since_query_ignored(since, doc) == TRUE

\* The query of get_changed_items (lines 266-268): `if since` holds for every
\* datetime.
since_query(since, doc) ==
    IF since # PyNone THEN doc.v.timestamp.v >= since.v ELSE TRUE

\* Lines 264-280.
get_changed_items(since) ==
    /\ call = NoCall
    /\ \E change_docs_sorted \in
           sort_timestamp_descending(
               SelectSeq(changes_collection, LAMBDA doc : since_query(since, doc))) :
         call' = [ op |-> "get_changed_items", args |-> << since >>,
                   value |-> [i \in 1..Len(change_docs_sorted) |->
                                ChangeSnapshot_of(change_docs_sorted[i])] ]
    /\ UNCHANGED manager

\* Lines 282-296.
get_item_history(item_id) ==
    /\ call = NoCall
    /\ \E change_docs_sorted \in
           sort_timestamp_descending(
               SelectSeq(changes_collection, LAMBDA doc : doc.v.item_id = item_id)) :
         call' = [ op |-> "get_item_history", args |-> << item_id >>,
                   value |-> [i \in 1..Len(change_docs_sorted) |->
                                ChangeSnapshot_of(change_docs_sorted[i])] ]
    /\ UNCHANGED manager

\* Lines 298-300.
get_cached_item(item_id) ==
    /\ call = NoCall
    /\ call' = [ op |-> "get_cached_item", args |-> << item_id >>,
                 value |-> find_one(items_collection, item_id) ]
    /\ UNCHANGED manager

\* str.lower on the strings of the model (the "i" option folds case).
lower(s) ==
    CASE s = "Widget" -> "widget"
      [] s = "Widget Pro" -> "widget pro"
      [] s = "Gadget" -> "gadget"
      [] s = "WID-001" -> "wid-001"
      [] s = "GAD-001" -> "gad-001"
      [] s = "PRO" -> "pro"
      [] s = "GET" -> "get"
      [] s = "Gad" -> "gad"
      [] OTHER -> s

\* The substrings of a lower-case string, among the patterns of the model.
substrings(s) ==
    CASE s = "widget" -> {"widget", "get"}
      [] s = "widget pro" -> {"widget pro", "widget", "get", "pro"}
      [] s = "gadget" -> {"gadget", "gad", "get"}
      [] s = "wid-001" -> {"wid-001", "001"}
      [] s = "gad-001" -> {"gad-001", "gad", "001"}
      [] OTHER -> {s}

\* {"$regex": pattern, "$options": "i"} on a value: an unanchored,
\* case-insensitive search for a pattern without metacharacters; only a string
\* can match.
regex(pattern, value) ==
    value.t = "str" /\ lower(pattern.v) \in substrings(lower(value.v))

\* The values a dotted path reaches in a document: MongoDB descends through
\* the elements of an array, and an array is also reached as a whole.
RECURSIVE values_at(_, _)
values_at(value, keys) ==
    IF keys = <<>>
    THEN {value} \cup (IF value.t = "list" THEN { value.v[i] : i \in DOMAIN value.v } ELSE {})
    ELSE IF value.t = "dict"
         THEN IF HasKey(value, Head(keys)) THEN values_at(value.v[Head(keys)], Tail(keys))
              ELSE {}
         ELSE IF value.t = "list"
              THEN UNION { values_at(value.v[i], keys) : i \in DOMAIN value.v }
              ELSE {}

\* The keys of the dotted paths the queries of the model use.
path_keys(path) ==
    CASE path = "item_data.name" -> << "item_data", "name" >>
      [] path = "item_data.variations.item_variation_data.sku"
           -> << "item_data", "variations", "item_variation_data", "sku" >>
      [] OTHER -> << path >>

\* One condition of a query document on a cached document: a $regex, or the
\* value to equal.
condition(doc, path, cond) ==
    IF cond.t = "regex"
    THEN \E value \in values_at(doc, path_keys(path)) : regex(cond.v, value)
    ELSE cond \in values_at(doc, path_keys(path))

Regex(pattern) == [t |-> "regex", v |-> pattern]

\* `if pattern`: None and the empty string are false.
truthy(pattern) == pattern # PyNone /\ pattern # PyStr("")

\* The query document of lines 310-324: the pattern part, then every filter
\* stored under its key (replacing what the key held).
search_query(name_pattern, sku_pattern, filters) ==
    filters.v @@
    (IF truthy(name_pattern) /\ truthy(sku_pattern)
     THEN ("$or" :> [t |-> "or",
                      v |-> << [path |-> "item_data.name", cond |-> Regex(name_pattern)],
                               [path |-> "item_data.variations.item_variation_data.sku",
                                cond |-> Regex(sku_pattern)] >>])
     ELSE IF truthy(name_pattern)
          THEN ("item_data.name" :> Regex(name_pattern))
          ELSE IF truthy(sku_pattern)
               THEN ("item_data.variations.item_variation_data.sku" :> Regex(sku_pattern))
               ELSE <<>>)

\* A cached document satisfies a query document: every key's condition, a $or
\* by one of its clauses.
matches(doc, query) ==
    \A key \in DOMAIN query :
        IF query[key].t = "or"
        THEN \E i \in DOMAIN query[key].v :
                 condition(doc, query[key].v[i].path, query[key].v[i].cond)
        ELSE condition(doc, key, query[key])

\* Lines 302-326: list(find(query)), in the order the store delivers.
search_cached_items(name_pattern, sku_pattern, filters) ==
    /\ call = NoCall
    /\ \E found \in
           { s \in [1..Cardinality({ d \in items_collection :
                                       matches(d, search_query(name_pattern, sku_pattern,
                                                               filters)) })
                    -> items_collection] :
               /\ \A i \in DOMAIN s : matches(s[i], search_query(name_pattern, sku_pattern,
                                                                 filters))
               /\ \A i, j \in DOMAIN s : s[i] = s[j] => i = j } :
         call' = [ op |-> "search_cached_items",
                   args |-> << name_pattern, sku_pattern, filters >>,
                   value |-> found ]
    /\ UNCHANGED manager

\* --------------------------------- a manager serving queries over a filled log

\* The document sync_from_square writes for item when it meets `cached` at
\* time now (the record is upserted before the batch is written).
SnapshotDoc(item, cached, now) ==
    asdict(detect_changes(item, 1, cached, now), << stamped(item, now) >>)

\* The documents the Change Log may hold: Widget1 created, renamed Widget Pro,
\* Gadget created, at any tick.  Runs that overlap leave entries out of
\* timestamp order, and a coarse clock leaves equal timestamps.
SnapshotDocs ==
    { SnapshotDoc(Widget1, PyNone, now) : now \in 1..MaxLog }
    \cup { SnapshotDoc(WidgetPro, stamped(Widget1, 0), now) : now \in 1..MaxLog }
    \cup { SnapshotDoc(Gadget, PyNone, now) : now \in 1..MaxLog }

ChangeLogs == UNION { [1..n -> SnapshotDocs] : n \in 0..MaxLog }

\* The cache the runs that wrote a log left: for every id the record of its
\* last entry.
CacheOf(log) ==
    { log[i].v.after_data :
        i \in { k \in DOMAIN log :
                  \A j \in DOMAIN log : log[j].v.item_id = log[k].v.item_id => j <= k } }

InitQuery ==
    /\ changes_collection \in ChangeLogs
    /\ items_collection = CacheOf(changes_collection)
    /\ sync_log_collection = <<>>
    /\ before = [p \in Procs |-> [items |-> items_collection,
                                  changes |-> changes_collection,
                                  sync_log |-> <<>>, sync_start |-> PyNone]]
    /\ Constructed

\* The arguments the queries are called with.
Sinces == {PyNone} \cup { PyDatetime(now) : now \in 1..(MaxLog + 1) }

ItemIds == { PyStr("I1"), PyStr("I2"), PyStr("I3") }

Patterns == { PyNone, PyStr("PRO"), PyStr("Gad") }

Filters ==
    { EmptyDict,
      PyDict([type |-> PyStr("ITEM")]),
      PyDict([version |-> PyInt(2)]),
      PyDict(("item_data.name" :> PyStr("Gadget"))) }

NextQuery ==
    \/ \E since \in Sinces : get_changed_items(since)
    \/ \E item_id \in ItemIds : get_item_history(item_id)
    \/ \E item_id \in ItemIds : get_cached_item(item_id)
    \/ \E name_pattern \in Patterns, sku_pattern \in Patterns, filters \in Filters :
         search_cached_items(name_pattern, sku_pattern, filters)
    \/ Return

SpecQuery == InitQuery /\ [][NextQuery]_vars

\* ------------------------------------------- queries while a sync is running

\* The single writer, and a reader that lists the Change Log or the whole
\* cache between any two steps of it.
NextRead ==
    \/ Next
    \/ get_changed_items(PyNone)
    \/ search_cached_items(PyNone, PyNone, EmptyDict)

SpecRead == Init /\ [][NextRead]_vars

\* ------------------------------------------------ two callers, no exclusion

\* Two processes that each call sync_from_square once (the command line runs
\* one command per process); nothing orders their steps.
NextConcurrent ==
    \E p \in Procs : ~Terminal(p) /\ sync_from_square(p) /\ call' = NoCall

SpecConcurrent == Init /\ [][NextConcurrent]_vars

\* ----------------------------- the MCP server (mcp-server/square_cache_mcp.py)

\* What running the preflight script may come to: the script is not there, it
\* cannot be executed (subprocess.run raises), it exits non-zero, it exits 0.
PreflightOutcomes == { "missing", "unrunnable", "denied", "passed" }

\* How the server was constructed: with a cache manager, or without one for
\* want of a token or because square_cache_manager could not be imported.
ServerConfigs == { "manager", "no_token", "import_error" }

\* An f-string: the text and the values formatted into it.
Message(text, values) == [t |-> "f-string", v |-> [text |-> text, values |-> values]]

\* _run_preflight(operation): the error string, None when the script exits 0,
\* or the exception subprocess.run raised.
run_preflight(operation, outcome) ==
    CASE outcome = "missing" -> Message("Preflight script missing", << >>)
      [] outcome = "unrunnable" -> PyException("subprocess.run", PyNone)
      [] outcome = "denied" ->
           Message("Runtime preflight denied for operation", << operation >>)
      [] OTHER -> PyNone

\* The preflight a handler ran, and what a handler returns when it did not
\* pass: {"error": preflight_error}, or {"error": str(e)} from the except
\* clause of handle_tool_call when it raised.
Preflight(operation, outcome) ==
    [ operation |-> operation, outcome |-> outcome,
      error |-> run_preflight(operation, outcome) ]

preflight_denied(preflight) ==
    IF preflight.error.t = "exception"
    THEN PyDict([error |-> PyStr(preflight.error.v)])
    ELSE PyDict([error |-> preflight.error])

\* The tool call that has just returned (or, for a sync in progress, has not
\* returned yet: its value is None).
ToolCall(tool_name, arguments, preflight, value) ==
    [ op |-> tool_name, args |-> << arguments >>, preflight |-> preflight, value |-> value ]

\* _get_sku and _get_price: of the first variation, 'N/A' without one.
get_sku(item) ==
    LET variations == DictGet(DictGet(item, "item_data", EmptyDict), "variations",
                              PyList(<< >>))
    IN  IF variations.v # << >>
        THEN DictGet(DictGet(variations.v[1], "item_variation_data", EmptyDict), "sku",
                     PyStr("N/A"))
        ELSE PyStr("N/A")

get_price(item) ==
    LET variations == DictGet(DictGet(item, "item_data", EmptyDict), "variations",
                              PyList(<< >>))
    IN  IF variations.v # << >>
        THEN LET price_money ==
                   DictGet(DictGet(variations.v[1], "item_variation_data", EmptyDict),
                           "price_money", EmptyDict)
             IN  Message("${amount/100:.2f} {currency}",
                         << DictGet(price_money, "amount", PyInt(0)),
                            DictGet(price_money, "currency", PyStr("USD")) >>)
        ELSE PyStr("N/A")

\* One entry of the items of _search (lines 224-230).
search_entry(item) ==
    PyDict([ id |-> DictGet(item, "id", PyNone),
             name |-> DictGet(DictGet(item, "item_data", EmptyDict), "name", PyNone),
             sku |-> get_sku(item),
             price |-> get_price(item),
             updated_at |-> DictGet(item, "updated_at", PyNone) ])

\* The documents of the cache that satisfy a query, in the orders the store
\* may deliver them.
find_all(query) ==
    { s \in [1..Cardinality({ d \in items_collection : matches(d, query) })
             -> items_collection] :
        /\ \A i \in DOMAIN s : matches(s[i], query)
        /\ \A i, j \in DOMAIN s : s[i] = s[j] => i = j }

\* datetime.isoformat and datetime.fromisoformat: a datetime as ISO text, and
\* back; str(datetime) is another text of it (a space for the T).
isoformat(d) == [t |-> "isoformat", v |-> d.v]

str_datetime(d) == [t |-> "str(datetime)", v |-> d.v]

fromisoformat(s) == PyDatetime(s.v)

\* _serialize: every datetime of the value as an ISO string.
RECURSIVE serialize(_)
serialize(obj) ==
    IF obj.t = "datetime" THEN isoformat(obj)
    ELSE IF obj.t = "dict" THEN PyDict([k \in DOMAIN obj.v |-> serialize(obj.v[k])])
    ELSE IF obj.t = "list" THEN PyList([i \in DOMAIN obj.v |-> serialize(obj.v[i])])
    ELSE obj

\* _search (lines 189-237).
tool_search(arguments, outcome) ==
    /\ call = NoCall
    /\ LET preflight == Preflight("square_cache_mcp_read", outcome)
           name_pattern == DictGet(arguments, "name_pattern", PyNone)
           sku_pattern == DictGet(arguments, "sku_pattern", PyNone)
       IN  IF preflight.error # PyNone
           THEN call' = ToolCall("square_cache_search", arguments, preflight,
                                 preflight_denied(preflight))
           ELSE IF ~truthy(name_pattern) /\ ~truthy(sku_pattern)
           THEN call' = ToolCall("square_cache_search", arguments, preflight,
                                 PyDict([error |->
                                   PyStr("Either name_pattern or sku_pattern required")]))
           ELSE \E results \in find_all(search_query(name_pattern, sku_pattern, EmptyDict)) :
                  call' = ToolCall("square_cache_search", arguments, preflight,
                                   PyDict([ count |-> PyInt(Len(results)),
                                            items |-> PyList([i \in DOMAIN results |->
                                                        search_entry(results[i])]) ]))
    /\ UNCHANGED manager

\* _get_item without its preflight
tool_get_item_unguarded(arguments, outcome) ==
    /\ call = NoCall
    /\ LET preflight == Preflight("square_cache_mcp_read", outcome)
           item_id == DictGet(arguments, "item_id", PyNone)
           item == find_one(items_collection, item_id)
       IN  IF ~truthy(item_id)
           THEN call' = ToolCall("square_cache_get_item", arguments, preflight,
                                 PyDict([error |-> PyStr("item_id required")]))
           ELSE IF item = PyNone
           THEN call' = ToolCall("square_cache_get_item", arguments, preflight,
                                 PyDict([error |-> Message("Item not found in cache",
                                                           << item_id >>)]))
           ELSE call' = ToolCall("square_cache_get_item", arguments, preflight,
                                 PyDict([item |->
                                   serialize(IF HasKey(item, "content_hash")
                                             THEN DictDel(item, "content_hash")
                                             ELSE item)]))
    /\ UNCHANGED manager

\* _get_item (lines 239-259).
tool_get_item(arguments, outcome) ==
    /\ call = NoCall
    /\ LET preflight == Preflight("square_cache_mcp_read", outcome)
           item_id == DictGet(arguments, "item_id", PyNone)
           item == find_one(items_collection, item_id)
       IN  IF preflight.error # PyNone
           THEN call' = ToolCall("square_cache_get_item", arguments, preflight,
                                 preflight_denied(preflight))
           ELSE IF ~truthy(item_id)
           THEN call' = ToolCall("square_cache_get_item", arguments, preflight,
                                 PyDict([error |-> PyStr("item_id required")]))
           ELSE IF item = PyNone
           THEN call' = ToolCall("square_cache_get_item", arguments, preflight,
                                 PyDict([error |-> Message("Item not found in cache",
                                                           << item_id >>)]))
           ELSE call' = ToolCall("square_cache_get_item", arguments, preflight,
                                 PyDict([item |->
                                   serialize(IF HasKey(item, "content_hash")
                                             THEN DictDel(item, "content_hash")
                                             ELSE item)]))
    /\ UNCHANGED manager

\* find_one({}, sort=[('timestamp', -1)]) on the Sync Log: an entry with the
\* latest timestamp, None when the log is empty.
latest_sync ==
    IF sync_log_collection = << >> THEN { PyNone }
    ELSE { sync_log_collection[i] :
             i \in { k \in DOMAIN sync_log_collection :
                       \A j \in DOMAIN sync_log_collection :
                           sync_log_collection[j].v.timestamp.v
                             <= sync_log_collection[k].v.timestamp.v } }

\* _status (lines 261-292).
tool_status(outcome, config) ==
    /\ call = NoCall
    /\ LET preflight == Preflight("square_cache_mcp_read", outcome)
       IN  IF preflight.error # PyNone
           THEN call' = ToolCall("square_cache_status", EmptyDict, preflight,
                                 preflight_denied(preflight))
           ELSE \E last_sync \in latest_sync :
                  call' = ToolCall("square_cache_status", EmptyDict, preflight,
                    PyDict([ mongodb_running |-> PyBool(TRUE),
                             items_cached |-> PyInt(Cardinality(items_collection)),
                             changes_tracked |-> PyInt(Len(changes_collection)),
                             sync_operations |-> PyInt(Len(sync_log_collection)),
                             last_sync |->
                               IF last_sync = PyNone THEN PyNone
                               ELSE PyDict([ timestamp |-> str_datetime(last_sync.v.timestamp),
                                             status |->
                                               IF ~truthy(DictGet(last_sync, "error", PyNone))
                                               THEN PyStr("success") ELSE PyStr("error"),
                                             items_processed |->
                                               DictGet(last_sync, "total_items", PyInt(0)) ]),
                             sync_enabled |-> PyBool(config = "manager"),
                             cache_system_path |-> PyStr("cache-system") ]))
    /\ UNCHANGED manager

\* The first limit documents of a cursor.
limit_to(docs, limit) == SubSeq(docs, 1, IF limit.v < Len(docs) THEN limit.v ELSE Len(docs))

\* list((change.get('differences') or {}).keys()): the keys in the order
\* _find_differences stored them.
difference_keys(change) ==
    IF DictGet(change, "differences", PyNone) = PyNone THEN PyList(<< >>)
    ELSE PyList(SelectSeq([i \in DOMAIN compare_fields |-> PyStr(compare_fields[i])],
                          LAMBDA f : f.v \in DOMAIN change.v.differences.v))

\* _changes (lines 294-327).
tool_changes(arguments, outcome) ==
    /\ call = NoCall
    /\ LET preflight == Preflight("square_cache_mcp_read", outcome)
           since == DictGet(arguments, "since", PyNone)
           limit == DictGet(arguments, "limit", PyInt(20))
           since_date == IF truthy(since) THEN fromisoformat(since) ELSE PyNone
       IN  IF preflight.error # PyNone
           THEN call' = ToolCall("square_cache_changes", arguments, preflight,
                                 preflight_denied(preflight))
           ELSE \E sorted \in sort_timestamp_descending(
                                  SelectSeq(changes_collection,
                                            LAMBDA doc : since_query(since_date, doc))) :
                  call' = ToolCall("square_cache_changes", arguments, preflight,
                    PyDict([ count |-> PyInt(Len(limit_to(sorted, limit))),
                             changes |-> PyList([i \in DOMAIN limit_to(sorted, limit) |->
                               PyDict([ item_id |-> DictGet(sorted[i], "item_id", PyNone),
                                        item_name |-> DictGet(sorted[i], "item_name", PyNone),
                                        change_type |->
                                          DictGet(sorted[i], "change_type", PyNone),
                                        timestamp |-> str_datetime(sorted[i].v.timestamp),
                                        differences |-> difference_keys(sorted[i]) ])]) ]))
    /\ UNCHANGED manager

\* _sync (lines 329-355) up to the call of sync_from_square: the tool has not
\* returned while the run goes on.
tool_sync(outcome, config) ==
    /\ call = NoCall
    /\ LET preflight == Preflight("square_cache_mcp_sync", outcome)
       IN  IF preflight.error # PyNone
           THEN /\ call' = ToolCall("square_cache_sync", EmptyDict, preflight,
                                    preflight_denied(preflight))
                /\ UNCHANGED manager
           ELSE IF config # "manager"
           THEN /\ call' = ToolCall("square_cache_sync", EmptyDict, preflight,
                                    PyDict([error |->
                                      IF config = "no_token"
                                      THEN PyStr("Sync requires SQUARE_ACCESS_TOKEN")
                                      ELSE PyStr("Sync unavailable: could not import")]))
                /\ UNCHANGED manager
           ELSE /\ call' = ToolCall("square_cache_sync", EmptyDict, preflight, PyNone)
                /\ \E p \in Writers : StartSync(p)

\* What _sync returns when sync_from_square has returned sync_result, or
\* raised (lines 340-355), and None while it runs.
sync_returns(p, outcome, sync_result_or_error) ==
    IF outcome = "returned"
    THEN PyDict([ success |-> PyBool(TRUE),
                  items_processed |-> DictGet(sync_result_or_error, "total_items", PyNone),
                  changes_detected |->
                    DictGet(sync_result_or_error, "changes_detected", PyNone),
                  created |-> DictGet(sync_result_or_error, "created_count", PyNone),
                  updated |-> DictGet(sync_result_or_error, "updated_count", PyNone),
                  sync_log |-> Message("Fetched {} items; {} created, {} updated",
                                       << sync_result_or_error.v.total_items,
                                          sync_result_or_error.v.created_count,
                                          sync_result_or_error.v.updated_count >>) ])
    ELSE IF outcome = "raised"
    THEN PyDict([error |-> PyStr(sync_result_or_error.v)])
    ELSE PyNone

\* The steps of the run _sync started; the last one makes the tool return.
tool_sync_runs ==
    \E p \in Writers :
        /\ Running(p)
        /\ sync_from_square(p)
        /\ call' = [call EXCEPT !.value = sync_returns(p, pc'[p], result'[p])]

\* handle_tool_call (lines 171-187).
handle_tool_call(tool_name, arguments, outcome, config) ==
    \/ tool_name = "square_cache_search" /\ tool_search(arguments, outcome)
    \/ tool_name = "square_cache_get_item" /\ tool_get_item(arguments, outcome)
    \/ tool_name = "square_cache_status" /\ tool_status(outcome, config)
    \/ tool_name = "square_cache_changes" /\ tool_changes(arguments, outcome)
    \/ tool_name = "square_cache_sync" /\ tool_sync(outcome, config)
    \/ /\ tool_name \notin { "square_cache_search", "square_cache_get_item",
                             "square_cache_status", "square_cache_changes",
                             "square_cache_sync" }
       /\ call = NoCall
       /\ call' = ToolCall(tool_name, arguments,
                           [operation |-> "none", outcome |-> "none", error |-> PyNone],
                           PyDict([error |-> Message("Unknown tool", << tool_name >>)]))
       /\ UNCHANGED manager

\* The tools/call requests of the model, by tool.
ToolArguments(tool_name) ==
    CASE tool_name = "square_cache_search" ->
           { EmptyDict, PyDict([name_pattern |-> PyStr("PRO")]),
             PyDict([name_pattern |-> PyStr("PRO"), sku_pattern |-> PyStr("Gad")]) }
      [] tool_name = "square_cache_get_item" ->
           { EmptyDict, PyDict([item_id |-> PyStr("I1")]), PyDict([item_id |-> PyStr("I3")]) }
      [] tool_name = "square_cache_changes" ->
           { EmptyDict, PyDict([since |-> isoformat(PyDatetime(3)), limit |-> PyInt(1)]) }
      [] OTHER -> { EmptyDict }

ToolNames ==
    { "square_cache_search", "square_cache_get_item", "square_cache_status",
      "square_cache_changes", "square_cache_sync", "square_cache_purge" }

\* The main loop (lines 386-489): one request at a time; the response is
\* written before the next line of stdin is read.
NextMCP ==
    \/ \E tool_name \in ToolNames, outcome \in PreflightOutcomes, config \in ServerConfigs :
         \E arguments \in ToolArguments(tool_name) :
           handle_tool_call(tool_name, arguments, outcome, config)
    \/ tool_sync_runs
    \/ (\A p \in Writers : ~Running(p)) /\ Return

SpecMCP == Init /\ [][NextMCP]_vars

\* ------------------------------------------------------------ properties

\* What the current (or last) invocation of p found appended to the two logs
\* since it started.
NewSyncLog(p) ==
    SubSeq(sync_log_collection, Len(before[p].sync_log) + 1, Len(sync_log_collection))

NewChanges(p) ==
    SubSeq(changes_collection, Len(before[p].changes) + 1, Len(changes_collection))

\* A record without the two volatile top-level fields.
Content(record) ==
    [k \in DOMAIN record.v \ {"version", "updated_at"} |-> record.v[k]]

\* No id is listed twice with different content.
NoConflictingIds(items) ==
    \A i, j \in 1..Len(items) :
        items[i].v.id = items[j].v.id => Content(items[i]) = Content(items[j])

\* p's run returned, and so did the run before it, on the same records.
RepeatedRun(p) ==
    /\ pc[p] = "returned"
    /\ previous[p].outcome = "returned"
    /\ previous[p].items = last.items

NoChangesReported(p) ==
    /\ result[p].v.changes_detected = PyInt(0)
    /\ result[p].v.created_count = PyInt(0)
    /\ result[p].v.updated_count = PyInt(0)
    /\ changes_collection = before[p].changes

\* C1 as stated: a run that repeats the previous run's records reports no
\* change and appends nothing to the Change Log.
C1_IdempotentResync ==
    \A p \in Procs : RepeatedRun(p) => NoChangesReported(p)

\* C1, amended: a run that repeats the previous run's records reports no change
\* and appends nothing to the Change Log, provided no id is listed twice in
\* them with different content.
C1_IdempotentResyncWithoutConflicts ==
    \A p \in Procs :
        RepeatedRun(p) /\ NoConflictingIds(last.items) => NoChangesReported(p)

\* A second run over <<Widget2, Widget1>> (one id twice, same content) that
\* follows a first run which logged something.
C1_Witness ==
    \E p \in Procs :
        /\ RepeatedRun(p)
        /\ NoConflictingIds(last.items)
        /\ Len(last.items) = 2
        /\ last.items[1].v.id = last.items[2].v.id
        /\ before[p].changes # <<>>
        /\ NoChangesReported(p)

\* The exception that reached the caller came from the handler's own write.
HandlerWriteFailed(p) == result[p].context # PyNone

\* C2 as stated: every invocation, returned or raised, has appended exactly
\* one entry to the Sync Log.
C2_ExactlyOneSyncRun ==
    \A p \in Procs : Terminal(p) => Len(NewSyncLog(p)) = 1

\* C2, amended: an invocation appends nothing while it runs; one entry, with no
\* error, when it returns; one failed entry when it raises, and none when it is
\* the write of that entry that raised.
C2_OneSyncRunUnlessWriteFails ==
    \A p \in Procs :
        /\ Running(p) => NewSyncLog(p) = <<>>
        /\ pc[p] = "returned" =>
             /\ NewSyncLog(p) = << result[p] >>
             /\ ~HasKey(result[p], "error")
        /\ pc[p] = "raised" =>
             IF HandlerWriteFailed(p) THEN NewSyncLog(p) = <<>>
             ELSE /\ Len(NewSyncLog(p)) = 1
                  /\ HasKey(NewSyncLog(p)[1], "error")
                  /\ NewSyncLog(p)[1].v.status = PyStr("failed")

\* A run that raised and left its one failed entry after an earlier entry.
C2_Witness ==
    \E p \in Procs :
        /\ pc[p] = "raised"
        /\ ~HandlerWriteFailed(p)
        /\ before[p].sync_log # <<>>
        /\ Len(NewSyncLog(p)) = 1

\* The entry a failed run of p is to leave: its start time, the message of the
\* exception it re-raised, status failed.
FailedEntry(p) ==
    PyDict([ timestamp |-> before[p].sync_start,
             error |-> PyStr(result[p].v),
             status |-> PyStr("failed") ])

\* C3 as stated: whenever a run has raised, the Sync Log holds its failed
\* entry, stamped with the run's start time.
C3_FailedRunRecorded ==
    \A p \in Procs :
        pc[p] = "raised" =>
            \E i \in 1..Len(NewSyncLog(p)) :
                /\ NewSyncLog(p)[i].v.timestamp = before[p].sync_start
                /\ NewSyncLog(p)[i].v.status = PyStr("failed")
                /\ HasKey(NewSyncLog(p)[i], "error")

\* C3, amended: nothing is recorded before the handler runs; when the run has
\* raised, the Sync Log holds its failed entry (start time, message of the
\* exception re-raised, status failed), unless the write of that entry raised:
\* then nothing was recorded and the caller gets the write's exception.
C3_FailedRunRecordedUnlessWriteFails ==
    \A p \in Procs :
        /\ pc[p] = "except" => NewSyncLog(p) = <<>>
        /\ pc[p] = "raised" =>
             IF HandlerWriteFailed(p)
             THEN /\ NewSyncLog(p) = <<>>
                  /\ result[p].v = "insert_one(error_result)"
             ELSE NewSyncLog(p) = << FailedEntry(p) >>

\* A run that failed writing the Change Log, some time after it started, and
\* is recorded.
C3_Witness ==
    \E p \in Procs :
        /\ pc[p] = "raised"
        /\ result[p] = PyException("insert_many", PyNone)
        /\ NewSyncLog(p) = << FailedEntry(p) >>
        /\ clock > before[p].sync_start.v + 1

\* The run of p raised because the fetch did.
FetchFailed(p) ==
    /\ pc[p] = "raised"
    /\ \/ result[p] = PyException("requests.get", PyNone)
       \/ result[p].context = PyException("requests.get", PyNone)

\* C4 as stated: a run whose fetch raised has left the cache and the Change Log
\* as they were, one failed entry in the Sync Log, and the fetch's exception
\* with the caller.
C4_FetchFailureIsolated ==
    \A p \in Procs :
        FetchFailed(p) =>
            /\ items_collection = before[p].items
            /\ changes_collection = before[p].changes
            /\ NewSyncLog(p) = << FailedEntry(p) >>
            /\ result[p] = PyException("requests.get", PyNone)

\* C4, amended: once the fetch has raised the run holds no record and no
\* cursor, and it ends with the cache and the Change Log as they were and
\* with one failed entry and the fetch's exception, unless the write of that
\* entry raised: then the Sync Log is as it was too.
C4_FetchFailureIsolatedUnlessWriteFails ==
    \A p \in Procs :
        /\ pc[p] = "except" /\ error[p] = PyException("requests.get", PyNone) =>
             /\ square_items[p] = <<>> /\ changes[p] = <<>>
             /\ pages[p] = 0 /\ cursor[p] = PyNone
             /\ items_collection = before[p].items
             /\ changes_collection = before[p].changes
             /\ sync_log_collection = before[p].sync_log
        /\ FetchFailed(p) =>
             /\ items_collection = before[p].items
             /\ changes_collection = before[p].changes
             /\ IF HandlerWriteFailed(p) THEN NewSyncLog(p) = <<>>
                ELSE /\ NewSyncLog(p) = << FailedEntry(p) >>
                     /\ result[p] = PyException("requests.get", PyNone)

\* A fetch that raised over a cache an earlier run had filled.
C4_Witness ==
    \E p \in Procs :
        /\ FetchFailed(p)
        /\ ~HandlerWriteFailed(p)
        /\ before[p].items # {}
        /\ before[p].changes # <<>>
        /\ NewSyncLog(p) = << FailedEntry(p) >>

\* The positions of square_items[p] whose upsert was applied.
Upserted(p) == 1..(idx[p] - 1)

\* Position j is the last among the upserted ones with its id.
LastUpsertOfId(p, j) ==
    \A k \in Upserted(p) : square_items[p][k].v.id = square_items[p][j].v.id => k <= j

\* The cache of before the run with the upserts applied so far on top of it.
CacheSoFar(p) ==
    { d \in before[p].items :
        \A j \in Upserted(p) : square_items[p][j].v.id # d.v.id }
    \cup { square_items[p][j] : j \in { k \in Upserted(p) : LastUpsertOfId(p, k) } }

\* C5: when the handler is entered the cache holds every record upserted so
\* far exactly as written and the pre-run record of every other id, and the
\* handler leaves the cache as it finds it.
C5_NoRollback ==
    /\ [](\A p \in Procs : pc[p] = "except" => items_collection = CacheSoFar(p))
    /\ [][\A p \in Procs : pc[p] = "except" => items_collection' = items_collection]_vars

\* A run that fails at its second record, after replacing the cached record of
\* the first, with the second record's id cached since an earlier run.
C5_Witness ==
    \E p \in Procs :
        /\ pc[p] = "except"
        /\ idx[p] = 2
        /\ Len(square_items[p]) >= 2
        /\ square_items[p][1].v.id # square_items[p][2].v.id
        /\ find_one(before[p].items, square_items[p][1].v.id) # PyNone
        /\ find_one(before[p].items, square_items[p][1].v.id) # square_items[p][1]
        /\ find_one(before[p].items, square_items[p][2].v.id) # PyNone
        /\ items_collection = CacheSoFar(p)

\* What detection returned for the record the loop is at (pc[p] = "upsert"):
\* the snapshot just appended to changes, or None.
Classified(p) ==
    IF changes[p] # <<>> /\ changes[p][Len(changes[p])].v.after_data = Ref(idx[p])
    THEN changes[p][Len(changes[p])]
    ELSE PyNone

\* The positions before i that hold the id of position i.
EarlierOccurrences(p, i) ==
    { j \in 1..(i - 1) : square_items[p][j].v.id = fetched[p][i].v.id }

\* The cached record detection meets at position i when p is the only writer:
\* the record upserted for the latest earlier occurrence of the id in this
\* fetch, or else the record of before the run.
CachedWhenReached(p, i) ==
    IF EarlierOccurrences(p, i) # {}
    THEN square_items[p][CHOOSE j \in EarlierOccurrences(p, i) :
                            \A k \in EarlierOccurrences(p, i) : k <= j]
    ELSE find_one(before[p].items, fetched[p][i].v.id)

\* C6 as stated: every record of a run is classified against the cache of
\* before the run.
C6_DetectAgainstPreRunCache ==
    \A p \in Procs :
        pc[p] = "upsert" =>
            Classified(p) =
                detect_changes(fetched[p][idx[p]], idx[p],
                               find_one(before[p].items, fetched[p][idx[p]].v.id),
                               clock - 1)

\* C6, amended: every record of a run is classified against the cache as it is
\* when the record is reached: the record upserted for the latest earlier
\* occurrence of its id in the same fetch, or else the record of before the run.
C6_DetectAgainstCacheWhenReached ==
    \A p \in Procs :
        pc[p] = "upsert" =>
            Classified(p) =
                detect_changes(fetched[p][idx[p]], idx[p],
                               CachedWhenReached(p, idx[p]), clock - 1)

\* The second occurrence of an id that was not cached before the run,
\* classified as an update of the first occurrence.
C6_Witness ==
    \E p \in Procs :
        /\ pc[p] = "upsert"
        /\ idx[p] = 2
        /\ EarlierOccurrences(p, 2) = {1}
        /\ find_one(before[p].items, fetched[p][2].v.id) = PyNone
        /\ Classified(p) # PyNone
        /\ Classified(p).v.change_type = PyStr("update")
        /\ Classified(p).v.before_data = square_items[p][1]

\* C7 as stated: the entry of a run that returned carries status success, and
\* every entry of the Sync Log has status success or failed.
C7_SuccessStatus ==
    /\ \A p \in Procs :
         pc[p] = "returned" =>
             /\ HasKey(result[p], "status")
             /\ result[p].v.status = PyStr("success")
    /\ \A i \in 1..Len(sync_log_collection) :
         /\ HasKey(sync_log_collection[i], "status")
         /\ sync_log_collection[i].v.status \in {PyStr("success"), PyStr("failed")}

\* The snapshots of kind `change_type` among docs.
CountOf(docs, change_type) ==
    Cardinality({ i \in 1..Len(docs) : docs[i].v.change_type = PyStr(change_type) })

\* C8: the entry of a run that returned counts the snapshots the run appended
\* to the Change Log, in all and by kind, and the records it fetched.
C8_CountsMatchSnapshots ==
    \A p \in Procs :
        pc[p] = "returned" =>
            /\ result[p].v.changes_detected = PyInt(Len(NewChanges(p)))
            /\ result[p].v.created_count.v + result[p].v.updated_count.v
                 = Len(NewChanges(p))
            /\ result[p].v.created_count = PyInt(CountOf(NewChanges(p), "create"))
            /\ result[p].v.updated_count = PyInt(CountOf(NewChanges(p), "update"))
            /\ result[p].v.total_items = PyInt(Len(last.items))

\* A run over one id listed twice, unchanged and then changed: two records
\* fetched, one snapshot.
C8_Witness ==
    \E p \in Procs :
        /\ pc[p] = "returned"
        /\ Len(last.items) = 2
        /\ last.items[1].v.id = last.items[2].v.id
        /\ result[p].v.total_items = PyInt(2)
        /\ result[p].v.updated_count = PyInt(1)
        /\ result[p].v.created_count = PyInt(0)
        /\ Len(NewChanges(p)) = 1

\* C9: a record whose id is not cached is classified as a create: no
\* before_data, no differences, no version before, the record itself (as
\* fetched) as after_data and its version as the version after.
C9_CreateDetection ==
    \A p \in Procs :
        pc[p] = "upsert" /\ find_one(items_collection, fetched[p][idx[p]].v.id) = PyNone =>
            /\ Classified(p) =
                 ChangeSnapshot(fetched[p][idx[p]].v.id,
                                fetched[p][idx[p]].v.item_data.v.name,
                                PyStr("create"), PyDatetime(clock - 1), PyNone,
                                Ref(idx[p]), PyNone, PyNone,
                                fetched[p][idx[p]].v.version)
            /\ square_items[p][idx[p]] = fetched[p][idx[p]]

\* A create detected for the second record of a fetch, another id being cached.
C9_Witness ==
    \E p \in Procs :
        /\ pc[p] = "upsert"
        /\ idx[p] = 2
        /\ items_collection # {}
        /\ find_one(items_collection, fetched[p][2].v.id) = PyNone
        /\ Classified(p) # PyNone
        /\ Classified(p).v.change_type = PyStr("create")

\* The positions whose detection has run.
Detected(p) ==
    IF pc[p] = "upsert" THEN 1..idx[p]
    ELSE IF pc[p] \in {"detect", "save", "log"} THEN 1..(idx[p] - 1)
    ELSE {}

\* The record at position i hashes to the content_hash of the cached record it
\* met.
Unchanged(p, i) ==
    /\ CachedWhenReached(p, i) # PyNone
    /\ HasKey(CachedWhenReached(p, i), "content_hash")
    /\ calculate_hash(fetched[p][i]) = CachedWhenReached(p, i).v.content_hash

\* C10: a record that hashes to the content_hash of its cached record gets no
\* snapshot, and the Change Log gets the run's snapshots and nothing else.
C10_NoOpDetection ==
    \A p \in Procs :
        /\ \A i \in Detected(p) :
             Unchanged(p, i) =>
                 \A k \in 1..Len(changes[p]) : changes[p][k].v.after_data # Ref(i)
        /\ pc[p] = "log" => NewChanges(p) = change_docs(p)

\* A run past its batch write that met a cached record differing from the
\* fetched one in version only, and wrote a snapshot for another record.
C10_Witness ==
    \E p \in Procs :
        /\ pc[p] = "log"
        /\ NewChanges(p) # <<>>
        /\ \E i \in Detected(p) :
             /\ Unchanged(p, i)
             /\ CachedWhenReached(p, i).v.version # fetched[p][i].v.version

\* The cached record of id in items is at `version` and named `name`.
CachedIs(items, id, version, name) ==
    /\ find_one(items, PyStr(id)) # PyNone
    /\ find_one(items, PyStr(id)).v.version = PyInt(version)
    /\ find_one(items, PyStr(id)).v.item_data.v.name = PyStr(name)

\* p's run returned; it found I1 cached at version 1 named Widget and fetched
\* I1 once, at version 2 named Widget Pro.
UpdateScenario(p) ==
    /\ pc[p] = "returned"
    /\ CachedIs(before[p].items, "I1", 1, "Widget")
    /\ Cardinality({ i \in 1..Len(last.items) : last.items[i].v.id = PyStr("I1") }) = 1
    /\ \E i \in 1..Len(last.items) : last.items[i] = WidgetPro

\* The snapshots for `id` among docs.
SnapshotsOf(docs, id) == SelectSeq(docs, LAMBDA d : d.v.item_id = PyStr(id))

\* The run of p wrote one snapshot for I1, an update from version 1 to 2 with
\* the name entry, and counted one update.
OneUpdateOfI1(p) ==
    /\ Len(SnapshotsOf(NewChanges(p), "I1")) = 1
    /\ SnapshotsOf(NewChanges(p), "I1")[1].v.change_type = PyStr("update")
    /\ SnapshotsOf(NewChanges(p), "I1")[1].v.square_version_before = PyInt(1)
    /\ SnapshotsOf(NewChanges(p), "I1")[1].v.square_version_after = PyInt(2)
    /\ HasKey(SnapshotsOf(NewChanges(p), "I1")[1].v.differences, "item_data.name")
    /\ SnapshotsOf(NewChanges(p), "I1")[1].v.differences.v["item_data.name"]
         = PyDict([before |-> PyStr("Widget"), after |-> PyStr("Widget Pro")])
    /\ result[p].v.updated_count = PyInt(1)

\* C11 as stated: in the update scenario the run writes one update snapshot,
\* version 1 to 2, whose differences hold the name entry and nothing else.
C11_UpdateScenario ==
    \A p \in Procs :
        UpdateScenario(p) =>
            /\ OneUpdateOfI1(p)
            /\ DOMAIN SnapshotsOf(NewChanges(p), "I1")[1].v.differences.v
                 = {"item_data.name"}

\* C11, amended: in the update scenario the run writes one update snapshot,
\* version 1 to 2, whose differences hold the name entry, the version entry
\* (1 to 2), the updated_at entry when updated_at differs, and nothing else.
C11_UpdateScenarioWithVersion ==
    \A p \in Procs :
        UpdateScenario(p) =>
            /\ OneUpdateOfI1(p)
            /\ DOMAIN SnapshotsOf(NewChanges(p), "I1")[1].v.differences.v
                 = {"item_data.name", "version"}
                   \cup (IF find_one(before[p].items, PyStr("I1")).v.updated_at
                              # WidgetPro.v.updated_at
                         THEN {"updated_at"} ELSE {})
            /\ SnapshotsOf(NewChanges(p), "I1")[1].v.differences.v["version"]
                 = PyDict([before |-> PyInt(1), after |-> PyInt(2)])

\* The update scenario, with an earlier snapshot of I1 already in the Change Log.
C11_Witness ==
    \E p \in Procs :
        /\ UpdateScenario(p)
        /\ OneUpdateOfI1(p)
        /\ SnapshotsOf(before[p].changes, "I1") # <<>>

\* A dict without the key.
Without(d, key) == [k \in DOMAIN d.v \ {key} |-> d.v[k]]

\* The name of a record, None when it has none.
NameOf(record) == IF HasKey(record.v.item_data, "name")
                  THEN record.v.item_data.v.name ELSE PyNone

\* The cached record and the incoming one are the same but for the item name
\* (and the two fields only a cached record has).
DifferOnlyInName(cached, incoming) ==
    /\ NameOf(cached) # NameOf(incoming)
    /\ DOMAIN cached.v \ {"content_hash", "cached_at"} = DOMAIN incoming.v
    /\ \A k \in DOMAIN incoming.v \ {"item_data"} : cached.v[k] = incoming.v[k]
    /\ Without(cached.v.item_data, "name") = Without(incoming.v.item_data, "name")

\* C12: when the cached record and the incoming record differ only in the item
\* name, differences has exactly one entry, under item_data.name, with the
\* cached name as before and the incoming name as after.
C12_DiffCompleteness ==
    call.op = "_find_differences" /\ DifferOnlyInName(call.args[1], call.args[2]) =>
        /\ DOMAIN call.value.v = {"item_data.name"}
        /\ call.value.v["item_data.name"] =
             PyDict([before |-> NameOf(call.args[1]), after |-> NameOf(call.args[2])])

\* Widget renamed Widget Pro, version and updated_at the same on both sides.
C12_Witness ==
    /\ call.op = "_find_differences"
    /\ DifferOnlyInName(call.args[1], call.args[2])
    /\ NameOf(call.args[1]) = PyStr("Widget")
    /\ NameOf(call.args[2]) = PyStr("Widget Pro")
    /\ DictGet(call.args[1], "version", PyNone) = PyInt(2)
    /\ DOMAIN call.value.v = {"item_data.name"}

\* The ids of the records of a sequence, and of the documents of a collection.
IdsOf(items) == { items[i].v.id : i \in 1..Len(items) }

CachedIds(collection) == { d.v.id : d \in collection }

\* The records p's run has fetched: those of the run in progress, or those of
\* the run that returned.
FetchedBy(p) == IF pc[p] = "returned" THEN last.items ELSE fetched[p]

\* The cached records the run of p is not to visit: cached before the run, id
\* absent from the fetch.
Absent(p) == { d \in before[p].items : d.v.id \notin IdsOf(FetchedBy(p)) }

\* C13: no entry of the Change Log is a delete, and a record that is cached
\* but absent from the fetch of a run is as it was before the run and has no
\* snapshot from the run, neither pending nor written.
C13_NoDelete ==
    /\ \A i \in 1..Len(changes_collection) :
         changes_collection[i].v.change_type \in {PyStr("create"), PyStr("update")}
    /\ \A p \in Procs :
         Running(p) \/ pc[p] = "returned" =>
             \A d \in Absent(p) :
                 /\ d \in items_collection
                 /\ \A i \in 1..Len(changes[p]) : changes[p][i].v.item_id # d.v.id
                 /\ \A i \in 1..Len(NewChanges(p)) : NewChanges(p)[i].v.item_id # d.v.id

\* A run that returned with a snapshot written for the one record it fetched,
\* while another id was cached.
C13_Witness ==
    \E p \in Procs :
        /\ pc[p] = "returned"
        /\ Absent(p) # {}
        /\ Len(last.items) = 1
        /\ NewChanges(p) # <<>>
        /\ Absent(p) \subseteq items_collection

\* The step is an upsert by p.
UpsertStep(p) == pc[p] = "upsert" /\ pc'[p] \in {"detect", "save"}

\* C14: the cache holds at most one record per id; an upsert leaves for the id
\* of its record exactly the document it wrote (the fetched record with its
\* content_hash and cached_at, and no field of the document it replaced) and
\* every other record as it was; and no step removes an id from the cache.
C14_OneRecordPerId ==
    /\ [](\A d, e \in items_collection : d.v.id = e.v.id => d = e)
    /\ [][\A p \in Procs :
            UpsertStep(p) =>
                /\ find_one(items_collection', fetched[p][idx[p]].v.id)
                     = stamped(fetched[p][idx[p]], clock)
                /\ \A d \in items_collection :
                     d.v.id # fetched[p][idx[p]].v.id => d \in items_collection']_vars
    /\ [][CachedIds(items_collection) \subseteq CachedIds(items_collection')]_vars

\* An upsert has replaced a cached record that had a description by one that
\* has none, and the description is gone from the cache.
C14_Witness ==
    \E p \in Procs :
        /\ pc[p] \in {"detect", "save"}
        /\ idx[p] = 2
        /\ find_one(before[p].items, fetched[p][1].v.id) # PyNone
        /\ HasKey(find_one(before[p].items, fetched[p][1].v.id).v.item_data, "description")
        /\ ~HasKey(fetched[p][1].v.item_data, "description")
        /\ find_one(items_collection, fetched[p][1].v.id) = square_items[p][1]
        /\ ~HasKey(find_one(items_collection, fetched[p][1].v.id).v.item_data, "description")
        /\ HasKey(find_one(before[p].items, fetched[p][1].v.id), "present_at_all_locations")
        /\ ~HasKey(find_one(items_collection, fetched[p][1].v.id), "present_at_all_locations")

\* C15: every step, of a sync run or of a query, leaves each entry of the
\* Change Log and of the Sync Log in its place and as it is: the log after the
\* step extends the log before it.
C15_AppendOnlyLogs ==
    [][/\ IsPrefix(changes_collection, changes_collection')
       /\ IsPrefix(sync_log_collection, sync_log_collection')]_vars

\* A query has just listed the Change Log, after the second of two runs that
\* both added to both logs; what the first left is still there.
C15_Witness ==
    \E p \in Procs :
        /\ Terminal(p)
        /\ call.op = "get_changed_items"
        /\ before[p].changes # <<>> /\ before[p].sync_log # <<>>
        /\ NewChanges(p) # <<>> /\ NewSyncLog(p) # <<>>
        /\ IsPrefix(before[p].changes, changes_collection)
        /\ IsPrefix(before[p].sync_log, sync_log_collection)

\* C16: two payloads hash alike exactly when they are equal once the top-level
\* version and updated_at are removed: those two fields do not count, and any
\* other difference, a version or updated_at nested in item_data included,
\* changes the hash.
C16_HashDeterminismAndSensitivity ==
    call.op = "_calculate_hash" =>
        (call.value[1] = call.value[2]
            <=> Content(call.args[1]) = Content(call.args[2]))

\* Two payloads that differ in the top-level version and updated_at only and
\* hash alike, with a nested version that is part of what was hashed.
C16_Witness ==
    /\ call.op = "_calculate_hash"
    /\ call.value[1] = call.value[2]
    /\ DictGet(call.args[1], "version", PyNone) # DictGet(call.args[2], "version", PyNone)
    /\ call.args[1].v.updated_at # call.args[2].v.updated_at
    /\ HasKey(call.args[1].v.item_data, "version")
    /\ HasKey(call.value[1].v.v.item_data, "version")

\* How many times the fields of entry occur among the snapshots of a list.
Occurrences(list, entry) == Cardinality({ i \in DOMAIN list : list[i].v = entry.v })

\* The list holds exactly the entries of the Change Log at the qualifying
\* positions, each as many times as the log holds it, latest first.
ExactlyLatestFirst(list, qualifying) ==
    /\ Len(list) = Cardinality(qualifying)
    /\ \A k \in qualifying :
         Occurrences(list, changes_collection[k])
           = Occurrences(changes_collection, changes_collection[k])
    /\ \A i \in DOMAIN list : list[i].t = "ChangeSnapshot"
    /\ \A i, j \in DOMAIN list : i < j => list[i].v.timestamp.v >= list[j].v.timestamp.v

\* C17: get_changed_items(since) returns exactly the entries of the Change Log
\* stamped at or after since (all of them without since), get_item_history(id)
\* exactly those of the id, both latest first, and neither changes the cache
\* or a log.
C17_QueriesFilterAndOrder ==
    /\ [](call.op = "get_changed_items" =>
            ExactlyLatestFirst(call.value,
                { k \in DOMAIN changes_collection :
                    \/ call.args[1] = PyNone
                    \/ changes_collection[k].v.timestamp.v >= call.args[1].v }))
    /\ [](call.op = "get_item_history" =>
            ExactlyLatestFirst(call.value,
                { k \in DOMAIN changes_collection :
                    changes_collection[k].v.item_id = call.args[1] }))
    /\ [][call'.op \in {"get_changed_items", "get_item_history"}
            => UNCHANGED collections]_vars

\* get_changed_items(since) over a log whose entries are not in timestamp
\* order: the oldest entry is left out, the two others come back latest first,
\* the reverse of the order they are stored in.
C17_Witness ==
    /\ call.op = "get_changed_items"
    /\ call.args[1] # PyNone
    /\ Len(changes_collection) = 3
    /\ changes_collection[1].v.timestamp.v < call.args[1].v
    /\ changes_collection[2].v.timestamp.v < changes_collection[3].v.timestamp.v
    /\ Len(call.value) = 2
    /\ call.value[1].v = changes_collection[3].v
    /\ call.value[2].v = changes_collection[2].v

\* The item name, and the SKUs of the variations, of a cached record.
SkusOf(record) ==
    { record.v.item_data.v.variations.v[i].v.item_variation_data.v.sku :
        i \in DOMAIN record.v.item_data.v.variations.v }

\* The pattern condition of a search on a record: the name pattern on the
\* name, the SKU pattern on a SKU, either of the two when both are given.
PatternCondition(record, name_pattern, sku_pattern) ==
    IF name_pattern # PyNone /\ sku_pattern # PyNone
    THEN \/ regex(name_pattern, record.v.item_data.v.name)
         \/ \E sku \in SkusOf(record) : regex(sku_pattern, sku)
    ELSE IF name_pattern # PyNone
         THEN regex(name_pattern, record.v.item_data.v.name)
         ELSE IF sku_pattern # PyNone
              THEN \E sku \in SkusOf(record) : regex(sku_pattern, sku)
              ELSE TRUE

\* The record equals the filter's value at every key of the filters.
FiltersMatch(record, filters) ==
    \A key \in DOMAIN filters.v :
        get_nested_value(record, key) = filters.v[key]

\* C18 as stated: a search returns exactly the cached records that match every
\* filter and the pattern condition.
C18_SearchFiltersAndPatterns ==
    call.op = "search_cached_items" =>
        { call.value[i] : i \in DOMAIN call.value }
          = { d \in items_collection :
                /\ FiltersMatch(d, call.args[3])
                /\ PatternCondition(d, call.args[1], call.args[2]) }

\* The positions of the Change Log that hold a create snapshot of id.
CreatesOf(id) ==
    { i \in DOMAIN changes_collection :
        /\ changes_collection[i].v.change_type = PyStr("create")
        /\ changes_collection[i].v.item_id = id }

\* C19: with two runs interleaving, the Change Log comes to hold two create
\* snapshots for one id, and only by the race: whenever it holds two, each was
\* detected before the record of the other was upserted.
C19_DuplicateCreatesOnlyByRace ==
    \A i, j \in DOMAIN changes_collection :
        /\ i # j
        /\ i \in CreatesOf(changes_collection[j].v.item_id)
        /\ j \in CreatesOf(changes_collection[j].v.item_id)
        => changes_collection[i].v.timestamp.v
             < changes_collection[j].v.after_data.v.cached_at.v

\* Both runs have returned, each after fetching the same single version of I1,
\* and the Change Log holds two create snapshots for it.
C19_Witness ==
    /\ \A p \in Procs : pc[p] = "returned"
    /\ Cardinality(CreatesOf(PyStr("I1"))) = 2
    /\ \A i, j \in CreatesOf(PyStr("I1")) :
         /\ changes_collection[i].v.square_version_after
              = changes_collection[j].v.square_version_after
         /\ Content(changes_collection[i].v.after_data).item_data
              = Content(changes_collection[j].v.after_data).item_data
    /\ Cardinality({ d \in items_collection : d.v.id = PyStr("I1") }) = 1

\* C20: a read returns the collections as they stand, with no isolation from
\* a run in progress: while the run is in its loop or about to write its
\* batch, the cache holds the records upserted so far over the pre-run records
\* of the other ids, and the Change Log holds none of the run's snapshots.
C20_ReadsSeePartialCache ==
    /\ call.op = "search_cached_items" =>
         { call.value[i] : i \in DOMAIN call.value } = items_collection
    /\ call.op = "get_changed_items" =>
         [i \in DOMAIN call.value |-> call.value[i].v]
           = [i \in DOMAIN call.value |->
                changes_collection[Len(changes_collection) + 1 - i].v]
    /\ \A p \in Procs :
         pc[p] \in {"detect", "upsert", "save"} =>
             /\ items_collection = CacheSoFar(p)
             /\ changes_collection = before[p].changes

\* A read between the first and the second record of a run: it returns the
\* first record as the run wrote it, which the cache did not hold before, and
\* the second record's id as it was cached before the run, while the run's
\* snapshot of the first record is pending and the Change Log is as before.
C20_Witness ==
    \E p \in Procs :
        /\ pc[p] = "detect"
        /\ idx[p] = 2
        /\ call.op = "search_cached_items"
        /\ Len(call.value) = 2
        /\ \E i \in DOMAIN call.value :
             /\ call.value[i] = square_items[p][1]
             /\ call.value[i] \notin before[p].items
        /\ \E i \in DOMAIN call.value :
             /\ call.value[i].v.id = square_items[p][2].v.id
             /\ call.value[i] \in before[p].items
        /\ square_items[p][1].v.id # square_items[p][2].v.id
        /\ changes[p] # <<>>
        /\ changes_collection = before[p].changes

\* The records are the start of a listing of the upstream, in its order.
ServedInOrder(items) == \E listing \in Listings : IsPrefix(items, listing)

\* C21: while a run fetches it holds exactly the records the upstream served
\* up to the cursor it holds, in page order, and has detected and written
\* nothing; a page that comes with a cursor, empty or not, is followed by the
\* request after that cursor, and the page without a cursor ends the fetch with
\* all the records served, in order; the loop runs with no cursor held; and a
\* fetch ends, normally or by a request that raised.
C21_FetchFollowsCursorChain ==
    /\ [](\A p \in Writers :
            /\ pc[p] = "fetch" =>
                 /\ square_items[p] = served_before(cursor[p])
                 /\ square_items[p] = fetched[p]
                 /\ ServedInOrder(square_items[p])
                 /\ (cursor[p] = PyNone <=> pages[p] = 0)
                 /\ idx[p] = 0 /\ changes[p] = <<>>
                 /\ items_collection = before[p].items
                 /\ changes_collection = before[p].changes
            /\ pc[p] \in {"detect", "upsert", "save", "log"} =>
                 /\ cursor[p] = PyNone
                 /\ Len(square_items[p]) = Len(fetched[p])
                 /\ ServedInOrder(fetched[p]))
    /\ [][\A p \in Writers :
            pc[p] = "fetch" /\ pc'[p] # "except" =>
                /\ IsPrefix(square_items[p], square_items'[p])
                /\ IF cursor'[p] # PyNone
                   THEN /\ pc'[p] = "fetch"
                        /\ served_before(cursor'[p]) = square_items'[p]
                        /\ pages'[p] = pages[p] + 1
                   ELSE /\ pc'[p] = (IF square_items'[p] = <<>> THEN "save" ELSE "detect")
                        /\ fetched'[p] = square_items'[p]
                        /\ ServedInOrder(square_items'[p])]_vars
    /\ \A p \in Writers : (pc[p] = "fetch") ~> (pc[p] # "fetch")

\* A fetch going on after an empty page that came with a cursor.
C21_Witness ==
    \E p \in Writers :
        /\ pc[p] = "fetch"
        /\ pages[p] = 1
        /\ cursor[p] = Cursor(<<>>)
        /\ square_items[p] = <<>>
        /\ before[p].items # {}

\* The last position of items that holds id.
LastOccurrence(items, id) ==
    CHOOSE j \in 1..Len(items) :
        /\ items[j].v.id = id
        /\ \A k \in 1..Len(items) : items[k].v.id = id => k <= j

\* A cached record without the two fields only the cache adds.
Payload(record) == [k \in DOMAIN record.v \ {"content_hash", "cached_at"} |-> record.v[k]]

\* C22: when a run has returned, the cache holds for every id it fetched the
\* last fetched occurrence of the id: its payload, version included, and the
\* content_hash computed from that payload, whether or not the run wrote a
\* snapshot for it.
C22_EveryFetchedRecordUpserted ==
    \A p \in Procs :
        pc[p] = "returned" =>
            \A id \in IdsOf(last.items) :
                /\ find_one(items_collection, id) # PyNone
                /\ Payload(find_one(items_collection, id))
                     = last.items[LastOccurrence(last.items, id)].v
                /\ find_one(items_collection, id).v.version
                     = last.items[LastOccurrence(last.items, id)].v.version
                /\ HasKey(find_one(items_collection, id), "content_hash")
                /\ find_one(items_collection, id).v.content_hash
                     = calculate_hash(last.items[LastOccurrence(last.items, id)])
                /\ HasKey(find_one(items_collection, id), "cached_at")
                /\ find_one(items_collection, id).v.cached_at.v > before[p].sync_start.v

\* A run that found I1 cached at version 1 and fetched it at version 2, nothing
\* else changed: no snapshot, and the cache holds version 2.
C22_Witness ==
    \E p \in Procs :
        /\ pc[p] = "returned"
        /\ CachedIs(before[p].items, "I1", 1, "Widget")
        /\ last.items = << Widget2 >>
        /\ NewChanges(p) = <<>>
        /\ CachedIs(items_collection, "I1", 2, "Widget")
        /\ find_one(items_collection, PyStr("I1")).v.content_hash
             = find_one(before[p].items, PyStr("I1")).v.content_hash

\* The entries of docs are the snapshots of list, one for one and in its order.
BatchOf(docs, list) ==
    /\ Len(docs) = Len(list)
    /\ \A k \in DOMAIN list :
         /\ docs[k].v.item_id = list[k].v.item_id
         /\ docs[k].v.change_type = list[k].v.change_type
         /\ docs[k].v.timestamp = list[k].v.timestamp
         /\ docs[k].v.differences = list[k].v.differences

\* C23: the snapshots a run holds are in fetch order; up to its batch write,
\* which comes when every record has been detected and upserted and before the
\* run is logged, the Change Log is as the run found it; the only step of a run
\* that changes the Change Log is that write, which appends all of the run's
\* snapshots in their order (the start of them when it fails), and nothing
\* when the run has none; and the step that logs a run as returned finds all
\* of the run's snapshots in the Change Log.
C23_OneBatchBeforeSyncRun ==
    /\ [](\A p \in Procs :
            /\ \A i, j \in DOMAIN changes[p] :
                 i < j => changes[p][i].v.after_data.v < changes[p][j].v.after_data.v
            /\ pc[p] \in {"fetch", "detect", "upsert", "save"} => NewChanges(p) = <<>>
            /\ pc[p] = "save" =>
                 /\ idx[p] = Len(square_items[p]) + 1
                 /\ \A i \in DOMAIN square_items[p] :
                      find_one(items_collection, square_items[p][i].v.id) # PyNone
                 /\ NewSyncLog(p) = <<>>
            /\ pc[p] = "log" => BatchOf(NewChanges(p), changes[p]) /\ NewSyncLog(p) = <<>>
            /\ pc[p] = "returned" =>
                 /\ Len(NewChanges(p)) = result[p].v.changes_detected.v
                 /\ NewSyncLog(p) = << result[p] >>)
    /\ [][\A p \in Procs :
            /\ pc[p] # "save" /\ Running(p) => changes_collection' = changes_collection
            /\ pc[p] = "save" /\ pc'[p] = "log" =>
                 /\ BatchOf(SubSeq(changes_collection', Len(changes_collection) + 1,
                                   Len(changes_collection')), changes[p])
                 /\ IsPrefix(changes_collection, changes_collection')
            /\ pc[p] = "save" /\ pc'[p] = "except" =>
                 /\ IsPrefix(changes_collection, changes_collection')
                 /\ Len(changes_collection') < Len(changes_collection) + Len(changes[p])
            /\ pc[p] = "save" /\ changes[p] = <<>> =>
                 changes_collection' = changes_collection
            /\ pc'[p] = "returned" /\ pc[p] # "returned" =>
                 /\ pc[p] = "log"
                 /\ BatchOf(NewChanges(p), changes[p])
                 /\ changes_collection' = changes_collection]_vars

\* A run about to be logged, with its two snapshots written after the entries
\* of an earlier run.
C23_Witness ==
    \E p \in Procs :
        /\ pc[p] = "log"
        /\ Len(changes[p]) = 2
        /\ before[p].changes # <<>>
        /\ BatchOf(NewChanges(p), changes[p])
        /\ NewChanges(p)[1].v.timestamp.v < NewChanges(p)[2].v.timestamp.v
        /\ NewSyncLog(p) = <<>>

\* The seven paths differences may have as keys.
Allowlist ==
    { "item_data.name", "item_data.description", "item_data.image_ids",
      "item_data.variations", "item_data.categories", "version", "updated_at" }

\* The key of item_data a path of the allowlist ends at.
Leaf(path) ==
    CASE path = "item_data.name" -> "name"
      [] path = "item_data.description" -> "description"
      [] path = "item_data.image_ids" -> "image_ids"
      [] path = "item_data.variations" -> "variations"
      [] path = "item_data.categories" -> "categories"

\* The value a path of the allowlist resolves to in a record: the value under
\* the key, whatever it is, and None when the key is missing or when item_data
\* is missing or is not a mapping.
Resolved(record, path) ==
    IF path \in {"version", "updated_at"}
    THEN IF path \in DOMAIN record.v THEN record.v[path] ELSE PyNone
    ELSE IF /\ "item_data" \in DOMAIN record.v
            /\ record.v.item_data.t = "dict"
            /\ Leaf(path) \in DOMAIN record.v.item_data.v
         THEN record.v.item_data.v[Leaf(path)]
         ELSE PyNone

\* The call returned an update snapshot.
ReturnedUpdate ==
    /\ call.op = "_detect_changes"
    /\ call.value.t = "ChangeSnapshot"
    /\ call.value.v.change_type = PyStr("update")

\* C24: the differences of an update snapshot have a key for exactly the paths
\* of the allowlist that resolve to different values in the cached and in the
\* incoming record, with the two values, a list as a whole, as before and
\* after; and a path resolves to the value at its end, or to None when a key
\* on the way is missing or the value on the way is not a mapping.
C24_DifferencesOverAllowlist ==
    /\ call.op = "_get_nested_value" =>
         call.value = Resolved(call.args[1], call.args[2])
    /\ ReturnedUpdate =>
         /\ call.value.v.differences.t = "dict"
         /\ DOMAIN call.value.v.differences.v \subseteq Allowlist
         /\ \A path \in Allowlist :
              IF Resolved(call.args[2], path) # Resolved(call.args[1], path)
              THEN /\ path \in DOMAIN call.value.v.differences.v
                   /\ call.value.v.differences.v[path]
                        = PyDict([before |-> Resolved(call.args[2], path),
                                  after |-> Resolved(call.args[1], path)])
              ELSE path \notin DOMAIN call.value.v.differences.v

\* An update of a cached record whose item_data is not a mapping by a record
\* with a name and a list of variations: both paths are in differences, from
\* None to the name and from None to the whole list.
C24_Witness ==
    /\ ReturnedUpdate
    /\ DictGet(call.args[2], "item_data", PyNone) = PyStr("Widget")
    /\ DOMAIN call.value.v.differences.v = {"item_data.name", "item_data.variations"}
    /\ call.value.v.differences.v["item_data.name"]
         = PyDict([before |-> PyNone, after |-> PyStr("Widget Pro")])
    /\ call.value.v.differences.v["item_data.variations"]
         = PyDict([before |-> PyNone, after |-> PyList(<< Variation("WID-002") >>)])

\* _detect_changes was called on a record whose id is cached, and returned.
ReturnedForCached ==
    /\ call.op = "_detect_changes"
    /\ call.args[2] # PyNone
    /\ call.value.t # "exception"

\* The cached record carries the hash of its own payload (a sync wrote it).
CachedBySync(cached) ==
    /\ "content_hash" \in DOMAIN cached.v
    /\ cached.v.content_hash = calculate_hash(PyDict(Payload(cached)))

\* The two records resolve every path of the allowlist alike.
SameOnAllowlist(cached, incoming) ==
    \A path \in Allowlist : Resolved(cached, path) = Resolved(incoming, path)

\* C28: for a record whose id is cached, detection returns an update snapshot
\* when the hash of the incoming record differs from the cached content_hash
\* and None when it does not, whatever the paths of the allowlist resolve to:
\* against a record a sync cached, None exactly when the two are equal but for
\* the top-level version and updated_at, and a snapshot with empty differences
\* when they differ and no path of the allowlist does.
C28_UpdateDecidedByHash ==
    ReturnedForCached =>
        /\ call.value # PyNone
             <=> calculate_hash(call.args[1])
                   # (IF "content_hash" \in DOMAIN call.args[2].v
                      THEN call.args[2].v.content_hash ELSE PyStr(""))
        /\ CachedBySync(call.args[2]) =>
             (call.value = PyNone
                <=> Content(call.args[1]) = Content(PyDict(Payload(call.args[2]))))
        /\ call.value # PyNone =>
             /\ call.value.v.change_type = PyStr("update")
             /\ call.value.v.before_data = call.args[2]
             /\ SameOnAllowlist(call.args[2], call.args[1])
                  => call.value.v.differences = EmptyDict

\* An update snapshot with empty differences: the abbreviation, which no path
\* of the allowlist reaches, is all that changed.
C28_Witness ==
    /\ ReturnedForCached
    /\ CachedBySync(call.args[2])
    /\ call.value # PyNone
    /\ call.value.v.change_type = PyStr("update")
    /\ call.value.v.differences = EmptyDict
    /\ SameOnAllowlist(call.args[2], call.args[1])
    /\ IsDict(DictGet(call.args[1], "item_data", PyNone))
    /\ IsDict(DictGet(call.args[2], "item_data", PyNone))
    /\ DictGet(call.args[1].v.item_data, "abbreviation", PyNone) = PyStr("W")
    /\ DictGet(call.args[2].v.item_data, "abbreviation", PyNone) = PyNone
    /\ DictGet(call.args[1].v.item_data, "name", PyNone) = PyStr("Widget")

\* The positions of docs that hold an update snapshot of id.
UpdatesOf(docs, id) ==
    { i \in DOMAIN docs :
        /\ docs[i].v.change_type = PyStr("update")
        /\ docs[i].v.item_id = id }

\* Every cached id has a create snapshot in the Change Log, and every id whose
\* content_hash the last run of p changed has an update snapshot from that run.
Audited(p) ==
    /\ \A d \in items_collection : CreatesOf(d.v.id) # {}
    /\ \A d \in items_collection, e \in before[p].items :
         d.v.id = e.v.id /\ d.v.content_hash # e.v.content_hash
             => UpdatesOf(NewChanges(p), d.v.id) # {}

AllRunsReturned ==
    /\ \A p \in Writers : ~Running(p)
    /\ Len(sync_log_collection) = runs
    /\ \A i \in DOMAIN sync_log_collection : ~HasKey(sync_log_collection[i], "error")

PendingCreatesOf(p, id) ==
    IF pc[p] \in {"detect", "upsert", "save"}
    THEN { i \in DOMAIN changes[p] :
             /\ changes[p][i].v.change_type = PyStr("create")
             /\ changes[p][i].v.item_id = id }
    ELSE {}

\* C26: with one run at a time, the create snapshots of an id, those in the
\* Change Log and those a run in progress is about to write, are one at most.
C26_AtMostOneCreatePerId ==
    \A p \in Writers, id \in ItemIds :
        Cardinality(CreatesOf(id)) + Cardinality(PendingCreatesOf(p, id)) <= 1

\* A run that returned after a run that raised, over a fetch listing I1 twice:
\* the Change Log holds one create snapshot of I1.
C26_Witness ==
    \E p \in Writers :
        /\ pc[p] = "returned"
        /\ previous[p].outcome = "raised"
        /\ Len(last.items) = 2
        /\ last.items[1].v.id = PyStr("I1") /\ last.items[2].v.id = PyStr("I1")
        /\ Cardinality(CreatesOf(PyStr("I1"))) = 1
        /\ CreatesOf(PyStr("I1")) \subseteq DOMAIN changes_collection \ DOMAIN before[p].changes

\* The step is a detection by p that returned.
DetectStep(p) == pc[p] = "detect" /\ pc'[p] = "upsert"

\* C27: the content_hash of every cached record is the hash of the record
\* without its content_hash and cached_at, which is the payload the upsert that
\* wrote it had fetched, and neither of the two fields is part of what was
\* hashed; so detection of that payload against the record returns None, and a
\* run that fetches it again appends no snapshot for it.
C27_CachedHashIsPayloadHash ==
    /\ [](\A d \in items_collection :
            /\ HasKey(d, "content_hash")
            /\ d.v.content_hash = calculate_hash(PyDict(Payload(d)))
            /\ d.v.content_hash.v.v = Content(PyDict(Payload(d)))
            /\ DOMAIN d.v.content_hash.v.v \cap {"content_hash", "cached_at"} = {}
            /\ detect_changes(PyDict(Payload(d)), 1, d, clock) = PyNone)
    /\ [][\A p \in Procs :
            /\ UpsertStep(p) =>
                 /\ Payload(find_one(items_collection', fetched[p][idx[p]].v.id))
                      = fetched[p][idx[p]].v
                 /\ find_one(items_collection', fetched[p][idx[p]].v.id).v.content_hash.v.v
                      = Content(fetched[p][idx[p]])
            /\ /\ DetectStep(p)
               /\ find_one(items_collection, fetched[p][idx[p]].v.id) # PyNone
               /\ Payload(find_one(items_collection, fetched[p][idx[p]].v.id))
                    = fetched[p][idx[p]].v
               => changes'[p] = changes[p]]_vars

\* The second run fetches I1 exactly as the first run cached it: no snapshot.
C27_Witness ==
    \E p \in Procs :
        /\ pc[p] = "upsert"
        /\ runs = 2
        /\ find_one(before[p].items, fetched[p][idx[p]].v.id) # PyNone
        /\ find_one(items_collection, fetched[p][idx[p]].v.id)
             = find_one(before[p].items, fetched[p][idx[p]].v.id)
        /\ Payload(find_one(items_collection, fetched[p][idx[p]].v.id))
             = fetched[p][idx[p]].v
        /\ Classified(p) = PyNone
        /\ changes[p] = <<>>

\* C29 as stated: the after_data of every snapshot a run has written to the
\* Change Log is the record as it was fetched, without the content_hash and
\* cached_at the upsert attached to it.
C29_AfterDataAsFetched ==
    \A p \in Procs :
        pc[p] = "log" =>
            \A k \in DOMAIN NewChanges(p) :
                NewChanges(p)[k].v.after_data = fetched[p][changes[p][k].v.after_data.v]

\* The five tools of the server and the operation class of each.
MCPTools ==
    { "square_cache_search", "square_cache_get_item", "square_cache_status",
      "square_cache_changes", "square_cache_sync" }

OperationOf(tool_name) ==
    IF tool_name = "square_cache_sync" THEN "square_cache_mcp_sync"
    ELSE "square_cache_mcp_read"

\* The result of a call whose preflight did not pass says so and carries
\* nothing read from the cache.
DeniedResult(tool_call) ==
    /\ tool_call.value.t = "dict"
    /\ DOMAIN tool_call.value.v = { "error" }
    /\ tool_call.value.v.error =
         (IF tool_call.preflight.outcome = "unrunnable" THEN PyStr("subprocess.run")
          ELSE IF tool_call.preflight.outcome = "missing"
               THEN Message("Preflight script missing", << >>)
               ELSE Message("Runtime preflight denied for operation",
                            << OperationOf(tool_call.op) >>))

\* C30: MCP preflight gate. Every call of one of the five tools runs the
\* preflight of its operation class (square_cache_mcp_sync for the sync tool,
\* square_cache_mcp_read for search, get_item, status and changes); when the
\* preflight does not pass (script missing, non-zero exit, or not runnable)
\* the call returns an error result that carries nothing of the cache, starts
\* no sync and leaves the cache, the Change Log and the Sync Log unchanged;
\* a sync starts, and the collections change, only under a sync tool call
\* whose preflight passed.
C30_PreflightGate ==
    /\ [](call.op \in MCPTools => call.preflight.operation = OperationOf(call.op))
    /\ [][ (call = NoCall /\ call' # NoCall /\ call'.op \in MCPTools
              /\ call'.preflight.outcome # "passed")
           => (DeniedResult(call') /\ UNCHANGED << collections, runs, pc >>) ]_vars
    /\ [][ (runs' # runs \/ collections' # collections)
           => (call'.op = "square_cache_sync" /\ call'.preflight.outcome = "passed") ]_vars

\* A sync tool call denied by the preflight over a filled cache: an error
\* result, and no run in progress.
C30_Witness ==
    /\ call.op = "square_cache_sync"
    /\ call.preflight.outcome = "denied"
    /\ DeniedResult(call)
    /\ items_collection # {}
    /\ changes_collection # << >>
    /\ \A p \in Writers : ~Running(p)

====
